---- MODULE Spec2Model ----
(***************************************************************************)
(* State-machine model of the signer MCP server: the SignerWrapper session *)
(* singleton, the MCP tool handlers, and the signer backends (Sodot MPC,   *)
(* Turnkey, Dfns, Local).  Strings that the code parses or concatenates    *)
(* are sequences of one-character strings.                                 *)
(***************************************************************************)
EXTENDS Integers, Sequences, FiniteSets, TLC

VARIABLES
    env,              \* process.env: a function whose DOMAIN is the set of variables present
    instance,         \* SignerWrapper.instance (NoInstance models null)
    signers,          \* the backend objects constructed so far: object id -> its fields
    remote,           \* state held by the remote custody services (accounts, wallets)
    nextOp,           \* number of getPubKey / signTransaction tool calls started
    ops,              \* tool calls in flight: call number -> its position and locals
    lastCall,         \* the most recent tool call that completed, with its outcome
    returned          \* <<curve, coinType>> -> public keys returned by successful getPubKey calls

vars == <<env, instance, signers, remote, nextOp, ops, lastCall, returned>>

----------------------------------------------------------------------------
(* Bounds *)

MaxOps == 2

\* the Stark reduction is checked for every curve order and digest up to these
MaxOrder == 12

MaxDigest == 40

----------------------------------------------------------------------------
(* schemas *)

SignerTypes == {"SODOT", "TURNKEY", "DFNS", "LOCAL"}

Curves == {"secp256k1", "ed25519", "stark"}

HashFunctions == {"sha256", "keccak256", "sha512_256", "pedersen", "none"}

SignatureFormats == {"rsv", "rs"}

\* JavaScript's undefined, in the positions where the code can meet it
Undefined == <<"undefined">>

----------------------------------------------------------------------------
(* process.env *)

Str(v) == <<v>>

InEnv(key) == key \in DOMAIN env

\* process.env[key]
Getenv(key) == IF key \in DOMAIN env THEN env[key] ELSE Undefined

\* Boolean(process.env[key]), also the truthiness test of `if (envVar)`
Truthy(key) == key \in DOMAIN env /\ Len(env[key]) > 0

SodotRequired ==
    {"SODOT_VERTEX_URL_0", "SODOT_VERTEX_API_KEY_0",
     "SODOT_VERTEX_URL_1", "SODOT_VERTEX_API_KEY_1",
     "SODOT_VERTEX_URL_2", "SODOT_VERTEX_API_KEY_2"}

TurnkeyRequired ==
    {"TURNKEY_BASE_URL", "TURNKEY_API_PUBLIC_KEY", "TURNKEY_API_PRIVATE_KEY",
     "TURNKEY_ORGANIZATION_ID", "TURNKEY_WALLET_ID"}

DfnsRequired ==
    {"DFNS_CRED_ID", "DFNS_PRIVATE_KEY", "DFNS_APP_ID", "DFNS_AUTH_TOKEN", "DFNS_API_URL"}

LocalRequired == {"SEED_PHRASE"}

RequiredEnv(signerType) ==
    CASE signerType = "SODOT" -> SodotRequired
      [] signerType = "TURNKEY" -> TurnkeyRequired
      [] signerType = "DFNS" -> DfnsRequired
      [] signerType = "LOCAL" -> LocalRequired

----------------------------------------------------------------------------
(* Strings as sequences of characters *)

RECURSIVE SplitAcc(_, _, _)
SplitAcc(s, sep, cur) ==
    IF s = <<>> THEN <<cur>>
    ELSE IF Head(s) = sep THEN <<cur>> \o SplitAcc(Tail(s), sep, <<>>)
    ELSE SplitAcc(Tail(s), sep, Append(cur, Head(s)))

\* String.prototype.split(sep) for a one-character separator
Split(s, sep) == SplitAcc(s, sep, <<>>)

RECURSIVE TrimStart(_)
TrimStart(s) == IF s # <<>> /\ Head(s) = " " THEN TrimStart(Tail(s)) ELSE s

RECURSIVE TrimEnd(_)
TrimEnd(s) ==
    IF s # <<>> /\ s[Len(s)] = " " THEN TrimEnd(SubSeq(s, 1, Len(s) - 1)) ELSE s

\* String.prototype.trim()
Trim(s) == TrimEnd(TrimStart(s))

\* NaN is kept apart from every integer the model computes with
NaN == -1000001

\* the value of a hexadecimal digit character, -1 for any other character
DigitValue(c) ==
    CASE c = "0" -> 0 [] c = "1" -> 1 [] c = "2" -> 2 [] c = "3" -> 3 [] c = "4" -> 4
      [] c = "5" -> 5 [] c = "6" -> 6 [] c = "7" -> 7 [] c = "8" -> 8 [] c = "9" -> 9
      [] c = "a" -> 10 [] c = "b" -> 11 [] c = "c" -> 12 [] c = "d" -> 13
      [] c = "e" -> 14 [] c = "f" -> 15
      [] OTHER -> -1

IsDigit(c, radix) == DigitValue(c) >= 0 /\ DigitValue(c) < radix

RECURSIVE DigitPrefix(_, _)
\* the longest prefix of s made of digits of the radix
DigitPrefix(s, radix) ==
    IF s # <<>> /\ IsDigit(Head(s), radix)
    THEN <<Head(s)>> \o DigitPrefix(Tail(s), radix)
    ELSE <<>>

RECURSIVE DigitsValue(_, _, _)
DigitsValue(s, radix, acc) ==
    IF s = <<>> THEN acc ELSE DigitsValue(Tail(s), radix, radix * acc + DigitValue(Head(s)))

HasHexPrefix(s) == Len(s) >= 2 /\ s[1] = "0" /\ s[2] \in {"x", "X"}

Unsigned(s) == IF s # <<>> /\ Head(s) \in {"-", "+"} THEN Tail(s) ELSE s

Signed(s, value) == IF s # <<>> /\ Head(s) = "-" /\ value # NaN THEN 0 - value ELSE value

\* parseInt(str): leading blanks and a sign are skipped, "0x" selects radix 16, the
\* longest digit prefix is read and what follows it is ignored; NaN without a digit
parseInt(str) ==
    LET trimmed == TrimStart(str)
        body == Unsigned(trimmed)
        radix == IF HasHexPrefix(body) THEN 16 ELSE 10
        digits == DigitPrefix(IF radix = 16 THEN SubSeq(body, 3, Len(body)) ELSE body, radix)
    IN Signed(trimmed, IF digits = <<>> THEN NaN ELSE DigitsValue(digits, radix, 0))

\* Number(str) on the strings the model uses (no exponent, no fraction): blanks are
\* trimmed, "" is 0, "0x" selects radix 16 (unsigned only), any other character gives NaN
ToNumber(str) ==
    LET trimmed == Trim(str)
        body == Unsigned(trimmed)
    IN IF trimmed = <<>> THEN 0
       ELSE IF HasHexPrefix(trimmed)
       THEN LET hex == SubSeq(trimmed, 3, Len(trimmed)) IN
            IF hex # <<>> /\ DigitPrefix(hex, 16) = hex THEN DigitsValue(hex, 16, 0) ELSE NaN
       ELSE IF body # <<>> /\ DigitPrefix(body, 10) = body
       THEN Signed(trimmed, DigitsValue(body, 10, 0))
       ELSE NaN

\* a === b on numbers: NaN equals nothing, itself included
NumberEquals(a, b) == a # NaN /\ b # NaN /\ a = b

HexDigit(d) ==
    CASE d = 10 -> "a" [] d = 11 -> "b" [] d = 12 -> "c" [] d = 13 -> "d"
      [] d = 14 -> "e" [] d = 15 -> "f" [] OTHER -> ToString(d)

RECURSIVE ToHex(_)
\* Number.prototype.toString(16) of a non-negative integer
ToHex(n) == IF n < 16 THEN <<HexDigit(n)>> ELSE ToHex(n \div 16) \o <<HexDigit(n % 16)>>

StartsWith(str, prefix) == Len(str) >= Len(prefix) /\ SubSeq(str, 1, Len(prefix)) = prefix

\* str.replace(/^0x/, "")
StripLeading0x(str) == IF StartsWith(str, <<"0", "x">>) THEN SubSeq(str, 3, Len(str)) ELSE str

----------------------------------------------------------------------------
(* Maps (JavaScript Map objects) as functions with a growing domain *)

EmptyMap == <<>>

MapHas(m, k) == k \in DOMAIN m

MapSet(m, k, v) == [x \in DOMAIN m \cup {k} |-> IF x = k THEN v ELSE m[x]]

MapDelete(m, k) == [x \in DOMAIN m \ {k} |-> m[x]]

----------------------------------------------------------------------------
(* The signer classes: static isConfigValid and the constructors *)

SodotIsConfigValid == \A key \in SodotRequired : InEnv(key)

TurnkeyIsConfigValid == \A key \in TurnkeyRequired : InEnv(key)

DfnsIsConfigValid == \A key \in DfnsRequired : InEnv(key)

LocalIsConfigValid == Truthy("SEED_PHRASE")

\* signerConstructors[signerType].isConfigValid()
IsConfigValid(signerType) ==
    CASE signerType = "SODOT" -> SodotIsConfigValid
      [] signerType = "TURNKEY" -> TurnkeyIsConfigValid
      [] signerType = "DFNS" -> DfnsIsConfigValid
      [] signerType = "LOCAL" -> LocalIsConfigValid

ConstructorError(signerType) ==
    CASE signerType = "SODOT" -> "Missing required SODOT_* environment variables"
      [] signerType = "TURNKEY" -> "Missing required TURNKEY_* environment variables"
      [] signerType = "DFNS" -> "Missing required DFNS_* environment variables"
      [] signerType = "LOCAL" -> "SEED_PHRASE is not set"

\* constructors that do not look at the configuration
ConstructorNeverThrows(signerType) == FALSE

\* every constructor throws exactly when its own isConfigValid() is false
ConstructorThrows(signerType) == ~IsConfigValid(signerType)

\* the fields of a freshly constructed backend object of the given class
NewSigner(signerType) ==
    [class |-> signerType,
     keyCache |-> EmptyMap,          \* SodotSigner
     pubkeyCache |-> EmptyMap,       \* TurnkeySigner
     walletIdByCurve |-> EmptyMap,   \* DfnsSigner
     walletCache |-> EmptyMap,       \* LocalSigner
     ed25519Cache |-> EmptyMap,
     starkKeyCache |-> EmptyMap]

----------------------------------------------------------------------------
(* SignerWrapper *)

NoInstance == [signerType |-> "null", signer |-> 0]

NoCall == [id |-> 0, at |-> "", outcomes |-> EmptyMap, keyIds |-> <<>>]

\* an is() that takes every signer for an instance of every class
IsAnything(inst, signerType) == TRUE

\* SignerWrapper.prototype.is: this.signer instanceof signerConstructors[signerType];
\* the four classes are unrelated, so an object is an instance of its own class only
Is(inst, signerType) == signers[inst.signer].class = signerType

\* what a tool call returned (ok) or threw; `call` tells how a backend call went
Ok(tool, arg, value) ==
    [tool |-> tool, arg |-> arg, ok |-> TRUE, value |-> value, call |-> NoCall]

Err(tool, arg, message, detail) ==
    [tool |-> tool, arg |-> arg, ok |-> FALSE, value |-> <<message, detail>>, call |-> NoCall]

\* a connect() that constructs again whenever the requested kind differs
MustConstructOnMismatch(signerType) ==
    instance = NoInstance \/ ~Is(instance, signerType)

\* a connect() that constructs on every call
MustConstructAlways(signerType) == TRUE

\* whether connect(signerType) enters the branch that constructs a SignerWrapper
MustConstruct(signerType) == instance = NoInstance

\* SignerWrapper.connect, called by the connectWallet tool
Connect(signerType) ==
    /\ UNCHANGED <<env, remote, nextOp, ops, returned>>
    /\ IF MustConstruct(signerType)
       THEN IF ConstructorThrows(signerType)
            THEN /\ lastCall' = Err("connectWallet", signerType,
                                    ConstructorError(signerType), "")
                 /\ UNCHANGED <<instance, signers>>
            ELSE LET id == Len(signers) + 1 IN
                 /\ signers' = Append(signers, NewSigner(signerType))
                 /\ instance' = [signerType |-> signerType, signer |-> id]
                 /\ lastCall' = Ok("connectWallet", signerType, <<"Wallet connected using", signerType>>)
       ELSE /\ UNCHANGED <<instance, signers>>
            /\ lastCall' =
                 IF Is(instance, signerType)
                 THEN Ok("connectWallet", signerType, <<"Wallet connected using", signerType>>)
                 ELSE Err("connectWallet", signerType,
                          "Signer was already instanciated as", instance.signerType)

\* SignerWrapper.getAvailableProviders: what it returns
getAvailableProviders == {provider \in SignerTypes : IsConfigValid(provider)}

\* SignerWrapper.isConnected: what it returns
isConnected(signerType) == instance # NoInstance /\ Is(instance, signerType)

\* the getWalletStatus tool: the text it returns
WalletStatus ==
    IF instance # NoInstance
    THEN <<"Wallet is connected using", instance.signerType>>
    ELSE <<"No wallet connected", "">>

\* the getAvailableWalletSigners tool: reads the configuration, changes nothing
GetAvailableWalletSigners ==
    /\ getAvailableProviders \subseteq SignerTypes
    /\ UNCHANGED vars

\* a call of SignerWrapper.isConnected: reads the session, changes nothing
IsConnected(signerType) ==
    /\ isConnected(signerType) \in BOOLEAN
    /\ UNCHANGED vars

\* the getWalletStatus tool: reads the session, changes nothing
GetWalletStatus ==
    /\ WalletStatus[1] \in {"Wallet is connected using", "No wallet connected"}
    /\ UNCHANGED vars

----------------------------------------------------------------------------
(* utils.ts: signature extraction *)

RECURSIVE IndexOf0x(_, _)
\* position of the first occurrence of "0x" in s at or after i, 0 when there is none
IndexOf0x(s, i) ==
    IF i + 1 > Len(s) THEN 0
    ELSE IF s[i] = "0" /\ s[i + 1] = "x" THEN i
    ELSE IndexOf0x(s, i + 1)

\* String.prototype.replace("0x", ""): removes the first occurrence only
Replace0x(s) ==
    LET i == IndexOf0x(s, 1) IN
    IF i = 0 THEN s ELSE SubSeq(s, 1, i - 1) \o SubSeq(s, i + 2, Len(s))

\* signature.v?.replace("0x", "")
SanitizeV(v) == IF v = Undefined THEN Undefined ELSE Replace0x(v)

sanitizeSignature(signature) ==
    [r |-> Replace0x(signature.r), s |-> Replace0x(signature.s), v |-> SanitizeV(signature.v)]

\* string concatenation turns undefined into the text "undefined"
UndefinedText == <<"u", "n", "d", "e", "f", "i", "n", "e", "d">>

TextOf(v) == IF v = Undefined THEN UndefinedText ELSE v

ExtractSignatureThrows(signatureFormat) == signatureFormat \notin {"rs", "rsv"}

extractSignature(signatureFormat, signature) ==
    LET sanitizedSignature == sanitizeSignature(signature) IN
    IF signatureFormat = "rs"
    THEN sanitizedSignature.r \o sanitizedSignature.s
    ELSE sanitizedSignature.r \o sanitizedSignature.s \o TextOf(sanitizedSignature.v)

----------------------------------------------------------------------------
(* Tool calls in flight *)

NewOp(id, tool, signerId, spec, payload) ==
    [id |-> id, tool |-> tool, signer |-> signerId, spec |-> spec, payload |-> payload,
     pc |-> "start",
     roomUuid |-> Undefined,   \* room of the ceremony in progress
     keyIds |-> <<>>,          \* the key identifiers the call works with
     requests |-> EmptyMap,    \* peer -> request of the current phase
     results |-> EmptyMap,     \* peer -> settled result of the current phase
     outcomes |-> EmptyMap,    \* peer -> how its request of the current phase ended
     at |-> "start",           \* the position at which the call settled
     value |-> Undefined]      \* the value the call resolved with, or its error

Resolve(o, v) == [o EXCEPT !.pc = "resolved", !.at = o.pc, !.value = v]

Reject(o, message, detail) ==
    [o EXCEPT !.pc = "rejected", !.at = o.pc, !.value = <<message, detail>>]

Settled(o) == o.pc \in {"resolved", "rejected"}

Step(o, signer, rem) == [op |-> o, signer |-> signer, remote |-> rem]

\* how a request to a peer or remote service can end: a success response, a
\* non-success status with a JSON error body, or no response (fetch rejects)
Outcomes == {"ok", "status", "unreachable"}

----------------------------------------------------------------------------
(* SodotSigner *)

Vertices == 0 .. 2

n == 3

t == 2

\* a cache key that is the same for every curve
getKeyCacheKeyShared(spec) == "secp256k1"

getKeyCacheKey(spec) == spec.curve

\* an envVar selection that reads the other curve family's variable
ExistingKeyIdsVarSwapped(curve) ==
    IF curve = "secp256k1" THEN "SODOT_EXISTING_ED25519_KEY_IDS"
    ELSE "SODOT_EXISTING_ECDSA_KEY_IDS"

\* which variable getOrGenerateKeyIds reads for a curve
ExistingKeyIdsVar(curve) ==
    IF curve = "secp256k1" THEN "SODOT_EXISTING_ECDSA_KEY_IDS"
    ELSE "SODOT_EXISTING_ED25519_KEY_IDS"

SodotCurveSupported(curve) == curve \in {"ed25519", "secp256k1"}

adamikCurveToSodotCurve(curve) == IF curve = "ed25519" THEN "ed25519" ELSE "ecdsa"

SodotHashThrows(hashAlgo, curve) ==
    curve # "ed25519" /\ hashAlgo \in {"sha512_256", "pedersen"}

adamikHashFunctionToSodotHashMethod(hashAlgo, curve) ==
    IF curve = "ed25519" THEN "undefined" ELSE hashAlgo

DerivationPath(spec) == <<44, ToNumber(spec.coinType), 0, 0, 0>>

\* identifiers a peer allocates are fresh: they carry the call that asked for them
RoomUuid(o, phase) == <<"room", o.id, phase>>

KeygenId(o, i) == <<"keygen", o.id, i>>

KeyId(o, i) == <<"key", o.id, i>>

\* key identifiers as held in the code are indexed from 0
At(seq, i) == seq[i + 1]

\* createRoomWithVertex(0, n): the request goes out, the caller awaits the response
createRoomWithVertex(o, pc) ==
    [o EXCEPT !.pc = pc,
              !.requests = (0 :> [endpoint |-> "create-room", room_size |-> n]),
              !.results = EmptyMap]

\* the response of create-room: json.room_uuid, undefined in an error body
RoomOfResponse(o, phase, outcome) ==
    IF outcome = "ok" THEN RoomUuid(o, phase) ELSE Undefined

\* derivePubkeyWithVertex(0, keyIds[0], path, curve): request sent
derivePubkeyWithVertex(o) ==
    [o EXCEPT !.pc = "derivePubkey",
              !.requests = (0 :> [endpoint |-> "derive-pubkey",
                                  curve |-> adamikCurveToSodotCurve(o.spec.curve),
                                  key_id |-> At(o.keyIds, 0),
                                  derivation_path |-> DerivationPath(o.spec)]),
              !.results = EmptyMap]

\* the public key peer 0 derives for a key identifier and path
PubkeyOf(keyId, path) == <<"pubkey", keyId, path>>

\* the body of getPubkey / signTransaction after getOrGenerateKeyIds has returned
SodotWithKeyIds(o) ==
    IF o.tool = "getPubKey"
    THEN IF ~SodotCurveSupported(o.spec.curve)
         THEN Reject(o, "Unsupported curve", o.spec.curve)
         ELSE derivePubkeyWithVertex(o)
    ELSE IF SodotHashThrows(o.spec.hashFunction, o.spec.curve)
         THEN Reject(o, "Unsupported hash algorithm", o.spec.hashFunction)
         ELSE createRoomWithVertex(o, "signRoom")

\* getOrGenerateKeyIds up to its first await, then the caller's continuation.
\* The value read from keyCache (line 86) is overwritten on both branches before
\* it is used, so it takes no part in the result.
getOrGenerateKeyIds(o, signer) ==
    LET cacheKey == getKeyCacheKey(o.spec)
        envVar == ExistingKeyIdsVar(o.spec.curve)
    IN
    IF Truthy(envVar)
    THEN LET parts == Split(Getenv(envVar), ",")
             keyIds == [i \in 1 .. Len(parts) |-> Trim(parts[i])]
         IN [op |-> SodotWithKeyIds([o EXCEPT !.keyIds = keyIds]),
             signer |-> [signer EXCEPT !.keyCache = MapSet(@, cacheKey, keyIds)]]
    ELSE IF ~SodotCurveSupported(o.spec.curve)
         THEN [op |-> Reject(o, "Unsupported curve", o.spec.curve), signer |-> signer]
         ELSE [op |-> createRoomWithVertex(o, "keygenRoom"), signer |-> signer]

\* keygenVertex after the room: one /create request to every peer
KeygenInitRequests(o) ==
    [i \in Vertices |-> [endpoint |-> "create", curve |-> adamikCurveToSodotCurve(o.spec.curve)]]

\* what keygenInitWithVertex returns: the JSON body, whose fields are undefined in an error body
InitResult(o, i, outcome) ==
    IF outcome = "ok"
    THEN [keygen_id |-> KeygenId(o, i), key_id |-> KeyId(o, i)]
    ELSE [keygen_id |-> Undefined, key_id |-> Undefined]

\* keygenIds.filter((_, j) => j !== i)
OthersKeygenIds(keygenIds, i) ==
    LET js == [k \in 1 .. (Len(keygenIds) - 1) |-> IF k - 1 < i THEN k - 1 ELSE k] IN
    [k \in 1 .. Len(js) |-> At(keygenIds, js[k])]

\* keygenVertex after Promise.all of the init calls: one /keygen request to every peer
KeygenRequests(o, initKeygenResults) ==
    LET keygenIds == [k \in 1 .. n |-> initKeygenResults[k - 1].keygen_id]
        keyIds == [k \in 1 .. n |-> initKeygenResults[k - 1].key_id]
    IN [i \in Vertices |->
          [endpoint |-> "keygen",
           curve |-> adamikCurveToSodotCurve(o.spec.curve),
           room_uuid |-> o.roomUuid,
           key_id |-> At(keyIds, i),
           num_parties |-> n,
           threshold |-> t,
           others_keygen_ids |-> OthersKeygenIds(keygenIds, i)]]

\* sign after the room: keyIds.map((keyId, i) => signWithVertex(i, ...))
SignRequests(o) ==
    [i \in 0 .. (Len(o.keyIds) - 1) |->
       [endpoint |-> "sign",
        curve |-> adamikCurveToSodotCurve(o.spec.curve),
        room_uuid |-> o.roomUuid,
        key_id |-> At(o.keyIds, i),
        msg |-> StripLeading0x(o.payload),
        derivation_path |-> DerivationPath(o.spec),
        hash_algo |-> IF adamikCurveToSodotCurve(o.spec.curve) = "ecdsa"
                      THEN adamikHashFunctionToSodotHashMethod(o.spec.hashFunction, o.spec.curve)
                      ELSE "undefined"]]

UndefinedResponse == [form |-> "undefined"]

\* the SodotSignatureResponse of peer i: {r, s, v, der} for ecdsa, {signature} for ed25519
SignatureOfVertex(o, i) ==
    IF adamikCurveToSodotCurve(o.spec.curve) = "ecdsa"
    THEN [form |-> "rsv", r |-> <<"a", ToString(i)>>, s |-> <<"b", ToString(i)>>, v |-> 27 + i]
    ELSE [form |-> "signature", signature |-> <<"e", "d", ToString(i)>>]

\* what signWithVertex returns: undefined for a non-200 status
SignResult(o, i, outcome) ==
    IF outcome = "ok" THEN SignatureOfVertex(o, i) ELSE UndefinedResponse

\* a sign() that returns the first signature any peer produced
FirstDefined(signatures) ==
    IF \E i \in DOMAIN signatures : signatures[i] # UndefinedResponse
    THEN signatures[CHOOSE i \in DOMAIN signatures :
                      /\ signatures[i] # UndefinedResponse
                      /\ \A j \in DOMAIN signatures :
                           signatures[j] # UndefinedResponse => i <= j]
    ELSE UndefinedResponse

\* the element of the settled Promise.all results that sign() returns
SignReturns(signatures) == signatures[0]

\* a signTransaction that runs the signing ceremony again when peer 0 gave no signature
SodotSignatureRetried(o, signature) ==
    IF signature = UndefinedResponse
    THEN createRoomWithVertex(o, "signRoom")
    ELSE IF signature.form = "signature"
    THEN Resolve(o, signature.signature)
    ELSE Resolve(o, extractSignature(o.spec.signatureFormat,
                                     [r |-> signature.r, s |-> signature.s,
                                      v |-> ToHex(signature.v)]))

\* signTransaction after sign() has returned
SodotSignatureReturned(o, signature) ==
    IF signature = UndefinedResponse
    THEN Reject(o, "Failed to sign message with Vertex", "")
    ELSE IF signature.form = "signature"
    THEN Resolve(o, signature.signature)
    ELSE IF ExtractSignatureThrows(o.spec.signatureFormat)
    THEN Reject(o, "Unsupported signature format", o.spec.signatureFormat)
    ELSE Resolve(o, extractSignature(o.spec.signatureFormat,
                                     [r |-> signature.r, s |-> signature.s,
                                      v |-> ToHex(signature.v)]))

\* a keygenWithVertex that does not look at the response status
KeygenWithVertexNeverThrows(outcome) == FALSE

\* whether keygenWithVertex throws for the response it got
KeygenWithVertexThrows(outcome) == outcome # "ok"

\* a Promise.all that never settles
NeverSettled(requests, results) == FALSE

\* a sign that returns as soon as peer 0 has answered
AllSettledOrPeerZero(requests, results) ==
    \/ DOMAIN results = DOMAIN requests
    \/ requests[0].endpoint = "sign" /\ 0 \in DOMAIN results

\* Promise.all has every result once every request of the phase is settled
AllSettled(requests, results) == DOMAIN results = DOMAIN requests

\* the continuation that runs when peer i answers the request the call awaits
SodotOnResponse(o, signer, i, outcome) ==
    LET same == [op |-> o, signer |-> signer]
        results == MapSet(o.results, i, outcome)
    IN
    CASE o.pc = "keygenRoom" ->
           IF outcome = "unreachable"
           THEN [same EXCEPT !.op = Reject(o, "fetch failed", "create-room")]
           ELSE [same EXCEPT !.op =
                   [o EXCEPT !.pc = "keygenInit",
                             !.roomUuid = RoomOfResponse(o, "keygen", outcome),
                             !.requests = KeygenInitRequests(o),
                             !.results = EmptyMap]]
      [] o.pc = "keygenInit" ->
           IF outcome = "unreachable"
           THEN [same EXCEPT !.op = Reject(o, "fetch failed", "create")]
           ELSE LET inits == MapSet(o.results, i, InitResult(o, i, outcome)) IN
                IF AllSettled(o.requests, inits)
                THEN [same EXCEPT !.op =
                        [o EXCEPT !.pc = "keygen",
                                  !.keyIds = [k \in 1 .. n |-> inits[k - 1].key_id],
                                  !.requests = KeygenRequests(o, inits),
                                  !.results = EmptyMap]]
                ELSE [same EXCEPT !.op = [o EXCEPT !.results = inits]]
      [] o.pc = "keygen" ->
           IF KeygenWithVertexThrows(outcome)
           THEN [same EXCEPT !.op = Reject(o, "Vertex keygen failed", ToString(i))]
           ELSE IF AllSettled(o.requests, results)
           THEN \* keygenVertex returns keyIds; getOrGenerateKeyIds caches and returns them
                [op |-> SodotWithKeyIds(o),
                 signer |-> [signer EXCEPT
                               !.keyCache = MapSet(@, getKeyCacheKey(o.spec), o.keyIds)]]
           ELSE [same EXCEPT !.op = [o EXCEPT !.results = results]]
      [] o.pc = "derivePubkey" ->
           IF outcome = "unreachable"
           THEN [same EXCEPT !.op = Reject(o, "fetch failed", "derive-pubkey")]
           ELSE IF outcome = "ok"
           THEN [same EXCEPT !.op =
                   Resolve(o, PubkeyOf(o.requests[0].key_id, o.requests[0].derivation_path))]
           ELSE [same EXCEPT !.op = Resolve(o, Undefined)]
      [] o.pc = "signRoom" ->
           IF outcome = "unreachable"
           THEN [same EXCEPT !.op = Reject(o, "fetch failed", "create-room")]
           ELSE IF ~SodotCurveSupported(o.spec.curve)
           THEN [same EXCEPT !.op = Reject(o, "Unsupported curve", o.spec.curve)]
           ELSE IF Len(o.keyIds) > n
           THEN \* SODOT_VERTICES[i] is undefined for i >= 3
                [same EXCEPT !.op = Reject(o, "TypeError", "SODOT_VERTICES")]
           ELSE LET withRoom == [o EXCEPT !.roomUuid = RoomOfResponse(o, "sign", outcome)] IN
                [same EXCEPT !.op =
                   [withRoom EXCEPT !.pc = "sign",
                                    !.requests = SignRequests(withRoom),
                                    !.results = EmptyMap]]
      [] o.pc = "sign" ->
           IF outcome = "unreachable"
           THEN [same EXCEPT !.op = Reject(o, "fetch failed", "sign")]
           ELSE LET signatures == MapSet(o.results, i, SignResult(o, i, outcome)) IN
                IF AllSettled(o.requests, signatures)
                THEN [same EXCEPT !.op = SodotSignatureReturned(
                                            [o EXCEPT !.results = signatures],
                                            SignReturns(signatures))]
                ELSE [same EXCEPT !.op = [o EXCEPT !.results = signatures]]

\* a peer answers with success only a request whose identifiers are all present
\* (JSON.stringify drops a field whose value is undefined)
WellFormed(request) ==
    CASE request.endpoint = "keygen" ->
           /\ request.room_uuid # Undefined
           /\ request.key_id # Undefined
           /\ \A k \in 1 .. Len(request.others_keygen_ids) :
                request.others_keygen_ids[k] # Undefined
      [] request.endpoint = "sign" ->
           request.room_uuid # Undefined /\ request.key_id # Undefined
      [] request.endpoint = "derive-pubkey" -> request.key_id # Undefined
      [] OTHER -> TRUE

----------------------------------------------------------------------------
(* LocalSigner *)

getSeed == Getenv("SEED_PHRASE")

\* `${spec.curve}:${spec.coinType}`
getCacheKey(spec) == <<spec.curve, ":">> \o spec.coinType

\* `m/44'/${coinType}'/0'/0/0`
Bip44Path(coinType) ==
    <<"m", "/", "4", "4", "'", "/">> \o coinType \o <<"'", "/", "0", "'", "/", "0", "/", "0">>

\* `m/44'/${coinType}'/0'/0'/0'`
Slip10Path(coinType) ==
    <<"m", "/", "4", "4", "'", "/">> \o coinType
        \o <<"'", "/", "0", "'", "/", "0", "'", "/", "0", "'">>

\* key material is a function of the seed phrase and the derivation it went through
HdWallet(seed, path) == <<"secp256k1-key", seed, path>>

Ed25519KeyPair(seed, coinType) ==
    IF coinType = <<"6", "0", "7">>
    THEN <<"ed25519-key", seed, <<>>>>
    ELSE <<"ed25519-key", seed, Slip10Path(coinType)>>

StarkPrivateKey(seed, path) == <<"stark-key", seed, path>>

PublicKeyOf(key) == <<"pubkey", key>>

\* hashMessage: which hash functions make it throw
HashMessageThrows(hashFunction) == hashFunction \notin {"sha256", "keccak256", "pedersen", "none"}

\* hashMessage: the digest is a function of the hash function and the data
hashMessage(data, hashFunction) ==
    IF hashFunction = "none" THEN data ELSE <<hashFunction>> \o data

\* hex text standing for the signature components of (key, message)
LocalR(key, message) == <<"c", "1">>

LocalS(key, message) == <<"c", "2">>

\* getSecp256k1Wallet
getSecp256k1Wallet(spec, signer) ==
    LET key == getCacheKey(spec) IN
    IF MapHas(signer.walletCache, key)
    THEN [value |-> signer.walletCache[key], signer |-> signer]
    ELSE LET wallet == HdWallet(getSeed, Bip44Path(spec.coinType)) IN
         [value |-> wallet, signer |-> [signer EXCEPT !.walletCache = MapSet(@, key, wallet)]]

\* a reduction modulo the order itself
ReduceModOrder(keyBigInt, order) == keyBigInt % order

\* (keyBigInt % (order - 1n)) + 1n, on integers of unbounded width
ReduceToStarkKey(keyBigInt, order) == (keyBigInt % (order - 1)) + 1

\* getStarkPrivateKey
getStarkPrivateKey(spec, signer) ==
    LET key == getCacheKey(spec) IN
    IF MapHas(signer.starkKeyCache, key)
    THEN [value |-> signer.starkKeyCache[key], signer |-> signer]
    ELSE LET validKey == StarkPrivateKey(getSeed, Bip44Path(spec.coinType)) IN
         [value |-> validKey,
          signer |-> [signer EXCEPT !.starkKeyCache = MapSet(@, key, validKey)]]

\* the call once it holds its key: getPubkey returns the public key,
\* signTransaction signs and extracts the signature
LocalWithKey(o, key) ==
    IF o.tool = "getPubKey"
    THEN Resolve(o, PublicKeyOf(key))
    ELSE LET message == IF o.spec.curve = "ed25519"
                        THEN StripLeading0x(o.payload)
                        ELSE hashMessage(StripLeading0x(o.payload), o.spec.hashFunction)
             signature ==
                 [r |-> LocalR(key, message), s |-> LocalS(key, message),
                  v |-> IF o.spec.curve = "secp256k1" THEN ToHex(27) ELSE Undefined]
         IN IF ExtractSignatureThrows(o.spec.signatureFormat)
            THEN Reject(o, "Unsupported signature format", o.spec.signatureFormat)
            ELSE Resolve(o, extractSignature(o.spec.signatureFormat, signature))

\* LocalSigner.getPubkey / signTransaction up to the first await on outside work
LocalBegin(o, signer) ==
    IF o.tool = "signTransaction" /\ HashMessageThrows(o.spec.hashFunction)
    THEN [op |-> Reject(o, "SHA512_256 not implemented", ""), signer |-> signer]
    ELSE CASE o.spec.curve = "secp256k1" ->
                LET got == getSecp256k1Wallet(o.spec, signer) IN
                [op |-> LocalWithKey(o, got.value), signer |-> got.signer]
           [] o.spec.curve = "stark" ->
                LET got == getStarkPrivateKey(o.spec, signer) IN
                [op |-> LocalWithKey(o, got.value), signer |-> got.signer]
           [] o.spec.curve = "ed25519" ->
                IF MapHas(signer.ed25519Cache, getCacheKey(o.spec))
                THEN [op |-> LocalWithKey(o, signer.ed25519Cache[getCacheKey(o.spec)]),
                      signer |-> signer]
                ELSE \* getSeed().split(" ") is read here, then mnemonicToSeed is awaited
                     [op |-> [o EXCEPT !.pc = "mnemonicToSeed", !.value = getSeed],
                      signer |-> signer]

\* getEd25519KeyPair after tonMnemonic.mnemonicToSeed has resolved
LocalOnSeed(o, signer) ==
    LET pair == Ed25519KeyPair(o.value, o.spec.coinType) IN
    [op |-> LocalWithKey([o EXCEPT !.value = Undefined], pair),
     signer |-> [signer EXCEPT !.ed25519Cache = MapSet(@, getCacheKey(o.spec), pair)]]

----------------------------------------------------------------------------
(* utils.ts: derivation paths *)

RECURSIVE IndexOfChar(_, _, _)
IndexOfChar(str, c, i) ==
    IF i > Len(str) THEN 0 ELSE IF str[i] = c THEN i ELSE IndexOfChar(str, c, i + 1)

\* segment.replace("'", ""): removes the first apostrophe only
RemoveHardened(segment) ==
    LET i == IndexOfChar(segment, "'", 1) IN
    IF i = 0 THEN segment ELSE SubSeq(segment, 1, i - 1) \o SubSeq(segment, i + 1, Len(segment))

SegmentValid(segment) ==
    LET num == parseInt(RemoveHardened(segment)) IN num # NaN /\ num >= 0

isDerivationPath(path) ==
    IF ~StartsWith(path, <<"m", "/">>) THEN FALSE
    ELSE LET segments == Tail(Split(path, "/")) IN
         IF Len(segments) < 2 THEN FALSE
         ELSE \A k \in 1 .. Len(segments) : SegmentValid(segments[k])

\* null is kept apart from every number
Null == -1000002

getCoinTypeFromDerivationPath(derivationPath) ==
    IF ~isDerivationPath(derivationPath) THEN Null
    ELSE parseInt(RemoveHardened(Split(derivationPath, "/")[3]))

----------------------------------------------------------------------------
(* TurnkeySigner *)

\* `${spec.curve}-${spec.coinType}`
keyForSpec(spec) == <<spec.curve, "-">> \o spec.coinType

TurnkeyCurveSupported(curve) == curve \in {"secp256k1", "ed25519"}

convertAdamikCurveToTurnkeyCurve(curve) ==
    IF curve = "secp256k1" THEN "CURVE_SECP256K1" ELSE "CURVE_ED25519"

convertHashFunctionToTurnkeyHashFunction(hashFunction, curve) ==
    IF curve = "ed25519" THEN "HASH_FUNCTION_NOT_APPLICABLE"
    ELSE CASE hashFunction = "sha256" -> "HASH_FUNCTION_SHA256"
           [] hashFunction = "keccak256" -> "HASH_FUNCTION_KECCAK256"
           [] OTHER -> "HASH_FUNCTION_NOT_APPLICABLE"

\* the address (compressed public key) of the wallet's account on a curve and path
TurnkeyAddress(curve, path) == <<"pubkey", <<"turnkey-key", curve, path>>>>

TurnkeyAccount(curve, path) ==
    [curve |-> curve, path |-> path, addressFormat |-> "ADDRESS_FORMAT_COMPRESSED",
     address |-> TurnkeyAddress(curve, path)]

AccountMatches(a, curve, coinType) ==
    /\ a.curve = curve
    /\ NumberEquals(getCoinTypeFromDerivationPath(a.path), coinType)
    /\ a.addressFormat = "ADDRESS_FORMAT_COMPRESSED"

RECURSIVE FindIndex(_, _, _, _)
\* index of the first account that matches, 0 when none does (accounts.find)
FindIndex(accounts, curve, coinType, k) ==
    IF k > Len(accounts) THEN 0
    ELSE IF AccountMatches(accounts[k], curve, coinType) THEN k
    ELSE FindIndex(accounts, curve, coinType, k + 1)

\* the call once getPubkey has its address
TurnkeyWithPubkey(o, pubkey) ==
    IF o.tool = "getPubKey"
    THEN Resolve(o, pubkey)
    ELSE [o EXCEPT !.pc = "signRawPayload",
                   !.requests = (0 :> [endpoint |-> "signRawPayload",
                                       signWith |-> pubkey,
                                       payload |-> o.payload,
                                       hashFunction |->
                                           convertHashFunctionToTurnkeyHashFunction(
                                               o.spec.hashFunction, o.spec.curve)])]

\* TurnkeySigner.getPubkey up to its first await
TurnkeyBegin(o, signer) ==
    LET cacheKey == keyForSpec(o.spec) IN
    IF MapHas(signer.pubkeyCache, cacheKey)
    THEN TurnkeyWithPubkey(o, signer.pubkeyCache[cacheKey])
    ELSE [o EXCEPT !.pc = "getWalletAccounts",
                   !.requests = (0 :> [endpoint |-> "getWalletAccounts",
                                       walletId |-> Getenv("TURNKEY_WALLET_ID")])]

\* the r, s, v the service returns for a raw payload
TurnkeySignature(request) == [r |-> <<"d", "1">>, s |-> <<"d", "2">>, v |-> <<"0", "1">>]

\* the continuation that runs when the Turnkey API answers
TurnkeyOnResponse(o, signer, rem, outcome) ==
    LET same == Step(o, signer, rem) IN
    IF outcome # "ok"
    THEN [same EXCEPT !.op = Reject(o, "Turnkey request failed", o.pc)]
    ELSE
    CASE o.pc = "getWalletAccounts" ->
           IF ~TurnkeyCurveSupported(o.spec.curve)
           THEN [same EXCEPT !.op = Reject(o, "Unsupported curve", o.spec.curve)]
           ELSE LET curve == convertAdamikCurveToTurnkeyCurve(o.spec.curve)
                    coinType == ToNumber(o.spec.coinType)
                    found == FindIndex(rem.turnkeyAccounts, curve, coinType, 1)
                IN IF found # 0
                   THEN LET address == rem.turnkeyAccounts[found].address IN
                        [same EXCEPT
                           !.op = TurnkeyWithPubkey(o, address),
                           !.signer = [signer EXCEPT
                                         !.pubkeyCache = MapSet(@, keyForSpec(o.spec), address)]]
                   ELSE [same EXCEPT !.op =
                           [o EXCEPT !.pc = "createWalletAccounts",
                                     !.requests =
                                       (0 :> [endpoint |-> "createWalletAccounts",
                                              walletId |-> Getenv("TURNKEY_WALLET_ID"),
                                              curve |-> curve,
                                              path |-> Bip44Path(o.spec.coinType)])]]
      [] o.pc = "createWalletAccounts" ->
           LET account == TurnkeyAccount(o.requests[0].curve, o.requests[0].path) IN
           [op |-> TurnkeyWithPubkey(o, account.address),
            signer |-> [signer EXCEPT
                          !.pubkeyCache = MapSet(@, keyForSpec(o.spec), account.address)],
            remote |-> [rem EXCEPT !.turnkeyAccounts = Append(@, account)]]
      [] o.pc = "signRawPayload" ->
           [same EXCEPT !.op =
              IF ExtractSignatureThrows(o.spec.signatureFormat)
              THEN Reject(o, "Unsupported signature format", o.spec.signatureFormat)
              ELSE Resolve(o, extractSignature(o.spec.signatureFormat,
                                               TurnkeySignature(o.requests[0])))]

----------------------------------------------------------------------------
(* DfnsSigner *)

convertAdamikCurveToDfnsCurve(curve) ==
    CASE curve = "stark" -> "KeyECDSAStark"
      [] curve = "ed25519" -> "KeyEdDSA"
      [] curve = "secp256k1" -> "KeyECDSA"

\* wallets the service creates get fresh identifiers and fresh keys
DfnsWallet(serial, network) ==
    [id |-> <<"wallet", serial>>, network |-> network,
     publicKey |-> <<"0", "x", "0", "0", "w", ToString(serial)>>]

RECURSIVE FindWallet(_, _, _)
\* index of the first wallet on the network, 0 when there is none (items.find)
FindWallet(items, network, k) ==
    IF k > Len(items) THEN 0
    ELSE IF items[k].network = network THEN k
    ELSE FindWallet(items, network, k + 1)

RECURSIVE FindWalletById(_, _, _)
FindWalletById(items, id, k) ==
    IF k > Len(items) THEN 0
    ELSE IF items[k].id = id THEN k
    ELSE FindWalletById(items, id, k + 1)

RECURSIVE StripZeros(_)
\* replace(/^0+/g, "")
StripZeros(str) == IF str # <<>> /\ Head(str) = "0" THEN StripZeros(Tail(str)) ELSE str

formatPubkey(pubkey, curve) ==
    IF curve = "stark" THEN <<"0", "x">> \o StripZeros(StripLeading0x(pubkey)) ELSE pubkey

\* hashTransactionPayload: the cases in which it throws (the stark range check aside)
HashTransactionPayloadThrows(hashAlgo, curve) ==
    curve = "secp256k1" /\ hashAlgo \notin {"sha256", "keccak256"}

hashTransactionPayload(hashAlgo, curve, payload) ==
    IF curve = "stark" THEN payload
    ELSE IF curve # "secp256k1"
    THEN (IF StartsWith(payload, <<"0", "x">>) THEN payload ELSE <<"0", "x">> \o payload)
    ELSE <<hashAlgo>> \o payload

\* the call once getOrCreateWallet has its wallet id
DfnsWithWallet(o, walletId) ==
    IF o.tool = "getPubKey"
    THEN [o EXCEPT !.pc = "getWallet",
                   !.requests = (0 :> [endpoint |-> "getWallet", walletId |-> walletId])]
    ELSE IF HashTransactionPayloadThrows(o.spec.hashFunction, o.spec.curve)
    THEN Reject(o, "Unsupported hash function", o.spec.hashFunction)
    ELSE [o EXCEPT !.pc = "generateSignature",
                   !.requests =
                     (0 :> [endpoint |-> "generateSignature",
                            walletId |-> walletId,
                            kind |-> IF o.spec.curve = "ed25519" THEN "Message" ELSE "Hash",
                            message |-> hashTransactionPayload(o.spec.hashFunction,
                                                               o.spec.curve, o.payload)])]

\* DfnsSigner.getOrCreateWallet up to its first await
DfnsBegin(o, signer) ==
    IF MapHas(signer.walletIdByCurve, o.spec.curve)
    THEN DfnsWithWallet(o, signer.walletIdByCurve[o.spec.curve])
    ELSE [o EXCEPT !.pc = "listWallets",
                   !.requests = (0 :> [endpoint |-> "listWallets"])]

\* the signature of a "Signed" response; recid is present for ECDSA curves only
DfnsSignature(request, curve) ==
    [r |-> <<"0", "x", "f", "1">>, s |-> <<"0", "x", "f", "2">>,
     v |-> IF curve = "ed25519" THEN Undefined ELSE ToHex(1)]

\* the continuation that runs when the Dfns API answers; "status" on
\* generateSignature is a response whose status is not "Signed"
DfnsOnResponse(o, signer, rem, outcome) ==
    LET same == Step(o, signer, rem) IN
    IF outcome # "ok"
    THEN [same EXCEPT !.op =
            IF o.pc = "generateSignature" /\ outcome = "status"
            THEN Reject(o, "Failed to sign", "reason")
            ELSE Reject(o, "Dfns request failed", o.pc)]
    ELSE
    CASE o.pc = "listWallets" ->
           LET network == convertAdamikCurveToDfnsCurve(o.spec.curve)
               existing == FindWallet(rem.dfnsWallets, network, 1)
           IN IF existing # 0
              THEN LET id == rem.dfnsWallets[existing].id IN
                   [same EXCEPT
                      !.op = DfnsWithWallet(o, id),
                      !.signer = [signer EXCEPT
                                    !.walletIdByCurve = MapSet(@, o.spec.curve, id)]]
              ELSE [same EXCEPT !.op =
                      [o EXCEPT !.pc = "createWallet",
                                !.requests = (0 :> [endpoint |-> "createWallet",
                                                    network |-> network])]]
      [] o.pc = "createWallet" ->
           LET created == DfnsWallet(Len(rem.dfnsWallets) + 1, o.requests[0].network) IN
           [op |-> DfnsWithWallet(o, created.id),
            signer |-> [signer EXCEPT
                          !.walletIdByCurve = MapSet(@, o.spec.curve, created.id)],
            remote |-> [rem EXCEPT !.dfnsWallets = Append(@, created)]]
      [] o.pc = "getWallet" ->
           LET k == FindWalletById(rem.dfnsWallets, o.requests[0].walletId, 1) IN
           [same EXCEPT !.op =
              Resolve(o, formatPubkey(rem.dfnsWallets[k].publicKey, o.spec.curve))]
      [] o.pc = "generateSignature" ->
           [same EXCEPT !.op =
              IF ExtractSignatureThrows(o.spec.signatureFormat)
              THEN Reject(o, "Unsupported signature format", o.spec.signatureFormat)
              ELSE Resolve(o, extractSignature(o.spec.signatureFormat,
                                               DfnsSignature(o.requests[0], o.spec.curve)))]

----------------------------------------------------------------------------
(* The MCP tools getPubKey and signTransaction, and the events they await *)

\* wallet.signer.getPubkey(signerSpec) / wallet.signer.signTransaction(payload, signerSpec)
\* up to the first await on a response
SignerBegin(o, signer) ==
    CASE signer.class = "SODOT" ->
           LET step == getOrGenerateKeyIds(o, signer) IN Step(step.op, step.signer, remote)
      [] signer.class = "TURNKEY" -> Step(TurnkeyBegin(o, signer), signer, remote)
      [] signer.class = "DFNS" -> Step(DfnsBegin(o, signer), signer, remote)
      [] signer.class = "LOCAL" ->
           LET step == LocalBegin(o, signer) IN Step(step.op, step.signer, remote)

ReturnedKey(spec) == <<spec.curve, spec.coinType>>

\* the effect of one step of a call: the backend object and the remote state change,
\* and a call that settled leaves the calls in flight and becomes the tool's outcome
Commit(before, step) ==
    LET o == IF ~Settled(step.op) /\ step.op.pc # before.pc
             THEN [step.op EXCEPT !.outcomes = EmptyMap, !.results = EmptyMap]
             ELSE step.op
    IN
    /\ signers' = [signers EXCEPT ![o.signer] = step.signer]
    /\ remote' = step.remote
    /\ IF Settled(o)
       THEN /\ ops' = MapDelete(ops, o.id)
            /\ lastCall' = [tool |-> o.tool, arg |-> o.spec, ok |-> o.pc = "resolved",
                            value |-> o.value,
                            call |-> [id |-> o.id, at |-> o.at, outcomes |-> o.outcomes,
                                      keyIds |-> o.keyIds]]
            /\ returned' =
                 IF o.tool = "getPubKey" /\ o.pc = "resolved"
                 THEN MapSet(returned, ReturnedKey(o.spec),
                             (IF MapHas(returned, ReturnedKey(o.spec))
                              THEN returned[ReturnedKey(o.spec)] ELSE {}) \cup {o.value})
                 ELSE returned
       ELSE /\ ops' = MapSet(ops, o.id, o)
            /\ UNCHANGED <<lastCall, returned>>

\* the object a tool handler obtains from SignerWrapper.getInstance() and calls into
WalletOf(inst) == inst.signer

\* the body shared by the getPubKey and signTransaction tools
ToolCall(tool, payload, signerSpec) ==
    /\ UNCHANGED <<env, instance>>
    /\ IF instance = NoInstance
       THEN /\ lastCall' = Err(tool, signerSpec, "No wallet is connected", "")
            /\ UNCHANGED <<signers, remote, nextOp, ops, returned>>
       ELSE /\ nextOp < MaxOps
            /\ nextOp' = nextOp + 1
            /\ LET o == NewOp(nextOp + 1, tool, WalletOf(instance), signerSpec, payload) IN
               Commit(o, SignerBegin(o, signers[o.signer]))

GetPubKey(signerSpec) == ToolCall("getPubKey", <<>>, signerSpec)

SignTransaction(payload, signerSpec) == ToolCall("signTransaction", payload, signerSpec)

IsSodotPc(pc) == pc \in {"keygenRoom", "keygenInit", "keygen", "derivePubkey", "signRoom", "sign"}

IsTurnkeyPc(pc) == pc \in {"getWalletAccounts", "createWalletAccounts", "signRawPayload"}

IsDfnsPc(pc) == pc \in {"listWallets", "createWallet", "getWallet", "generateSignature"}

\* peer i settles the request that call id has outstanding with it
VertexResponds(id, i, outcome) ==
    /\ id \in DOMAIN ops
    /\ IsSodotPc(ops[id].pc)
    /\ i \in DOMAIN ops[id].requests
    /\ i \notin DOMAIN ops[id].outcomes
    /\ outcome = "ok" => WellFormed(ops[id].requests[i])
    /\ LET o == [ops[id] EXCEPT !.outcomes = MapSet(@, i, outcome)]
           step == SodotOnResponse(o, signers[o.signer], i, outcome)
       IN Commit(ops[id], Step(step.op, step.signer, remote))
    /\ UNCHANGED <<env, instance, nextOp>>

\* the Turnkey API settles the request that call id awaits
TurnkeyResponds(id, outcome) ==
    /\ id \in DOMAIN ops
    /\ IsTurnkeyPc(ops[id].pc)
    /\ LET o == [ops[id] EXCEPT !.outcomes = MapSet(@, 0, outcome)] IN
       Commit(ops[id], TurnkeyOnResponse(o, signers[o.signer], remote, outcome))
    /\ UNCHANGED <<env, instance, nextOp>>

\* the Dfns API settles the request that call id awaits
DfnsResponds(id, outcome) ==
    /\ id \in DOMAIN ops
    /\ IsDfnsPc(ops[id].pc)
    /\ LET o == [ops[id] EXCEPT !.outcomes = MapSet(@, 0, outcome)] IN
       Commit(ops[id], DfnsOnResponse(o, signers[o.signer], remote, outcome))
    /\ UNCHANGED <<env, instance, nextOp>>

\* tonMnemonic.mnemonicToSeed resolves for call id
MnemonicToSeedResolves(id) ==
    /\ id \in DOMAIN ops
    /\ ops[id].pc = "mnemonicToSeed"
    /\ LET step == LocalOnSeed(ops[id], signers[ops[id].signer]) IN
       Commit(ops[id], Step(step.op, step.signer, remote))
    /\ UNCHANGED <<env, instance, nextOp>>

\* the connectWallet tool
ConnectWallet(signerType) ==
    IF signerType \notin SignerTypes
    THEN /\ lastCall' = Err("connectWallet", signerType, "is not a supported signer", signerType)
         /\ UNCHANGED <<env, instance, signers, remote, nextOp, ops, returned>>
    ELSE Connect(signerType)

----------------------------------------------------------------------------
(* Configurations, inputs and the specifications *)

\* process.env with the given variables set to a non-empty value
Present(keys) == [key \in keys |-> <<"v">>]

\* process.env with the given variables set to the empty string
Empty(keys) == [key \in keys |-> <<>>]

AllRequired == SodotRequired \cup TurnkeyRequired \cup DfnsRequired \cup LocalRequired

\* SODOT_EXISTING_ECDSA_KEY_IDS="ka, kb,kc"
EcdsaKeyIds ==
    "SODOT_EXISTING_ECDSA_KEY_IDS" :> <<"k", "a", ",", " ", "k", "b", ",", "k", "c">>

\* SODOT_EXISTING_ED25519_KEY_IDS="ea,eb,ec"
Ed25519KeyIds ==
    "SODOT_EXISTING_ED25519_KEY_IDS" :> <<"e", "a", ",", "e", "b", ",", "e", "c">>

\* every backend configured, the MPC key identifiers pre-provisioned
FullEnv == Present(AllRequired) @@ EcdsaKeyIds @@ Ed25519KeyIds

\* TURNKEY_BASE_URL present but empty, DFNS_API_URL missing, SEED_PHRASE empty,
\* no SODOT_* variable at all
DefectiveEnv ==
    Empty({"TURNKEY_BASE_URL", "SEED_PHRASE"})
        @@ Present((TurnkeyRequired \cup DfnsRequired) \ {"TURNKEY_BASE_URL", "DFNS_API_URL"})

\* the custody backends configured, SEED_PHRASE and every SODOT_* variable missing
CustodyEnv == Present(TurnkeyRequired \cup DfnsRequired)

\* the MPC backend configured, no pre-provisioned key identifiers
SodotEnv == Present(SodotRequired)

\* the MPC backend configured, ECDSA key identifiers pre-provisioned
ProvisionedEnv == Present(SodotRequired) @@ EcdsaKeyIds

NoRemote == [turnkeyAccounts |-> <<>>, dfnsWallets |-> <<>>]

\* the custody services already hold a secp256k1 account for coin type 60 / an ECDSA wallet
SomeRemote ==
    [turnkeyAccounts |-> <<TurnkeyAccount("CURVE_SECP256K1", Bip44Path(<<"6", "0">>))>>,
     dfnsWallets |-> <<DfnsWallet(1, "KeyECDSA")>>]

NoLastCall == Ok("none", "", <<>>)

InitWith(envs, remotes) ==
    /\ env \in envs
    /\ remote \in remotes
    /\ instance = NoInstance
    /\ signers = <<>>
    /\ nextOp = 0
    /\ ops = EmptyMap
    /\ lastCall = NoLastCall
    /\ returned = EmptyMap

SignerSpec(curve, hashFunction, signatureFormat, coinType) ==
    [curve |-> curve, hashFunction |-> hashFunction,
     signatureFormat |-> signatureFormat, coinType |-> coinType]

Payloads == {<<"0", "x", "a", "b">>}

Calls == 1 .. MaxOps

\* the session: every backend kind, one signing spec per curve
SessionSpecs ==
    {SignerSpec(curve, "sha256", "rsv", <<"6", "0">>) : curve \in Curves}

Init == InitWith({FullEnv, DefectiveEnv, CustodyEnv}, {NoRemote, SomeRemote})

Next ==
    \/ \E signerType \in SignerTypes \cup {"LEDGER"} : ConnectWallet(signerType)
    \/ GetAvailableWalletSigners
    \/ \E signerType \in SignerTypes : IsConnected(signerType)
    \/ GetWalletStatus
    \/ \E signerSpec \in SessionSpecs : GetPubKey(signerSpec)
    \/ \E payload \in Payloads, signerSpec \in SessionSpecs :
         SignTransaction(payload, signerSpec)
    \/ \E id \in Calls, i \in Vertices, outcome \in Outcomes : VertexResponds(id, i, outcome)
    \/ \E id \in Calls, outcome \in Outcomes : TurnkeyResponds(id, outcome)
    \/ \E id \in Calls, outcome \in Outcomes : DfnsResponds(id, outcome)
    \/ \E id \in Calls : MnemonicToSeedResolves(id)

Spec == Init /\ [][Next]_vars

\* the MPC backend alone, with the keygen ceremony
SodotSpecs ==
    {SignerSpec(curve, "sha256", "rsv", <<"6", "0">>) : curve \in {"secp256k1", "ed25519"}}

InitSodot == InitWith({SodotEnv, ProvisionedEnv}, {NoRemote})

NextSodot ==
    \/ ConnectWallet("SODOT")
    \/ \E signerSpec \in SodotSpecs : GetPubKey(signerSpec)
    \/ \E payload \in Payloads, signerSpec \in SodotSpecs :
         SignTransaction(payload, signerSpec)
    \/ \E id \in Calls, i \in Vertices, outcome \in Outcomes : VertexResponds(id, i, outcome)

SpecSodot == InitSodot /\ [][NextSodot]_vars

\* the MPC backend signing on secp256k1 with a supported and two unsupported hash functions
SodotHashSpecs ==
    {SignerSpec("secp256k1", hashFunction, "rsv", <<"6", "0">>) :
       hashFunction \in {"sha256", "sha512_256", "pedersen"}}

InitSodotHash == InitWith({SodotEnv, ProvisionedEnv}, {NoRemote})

NextSodotHash ==
    \/ ConnectWallet("SODOT")
    \/ \E payload \in Payloads, signerSpec \in SodotHashSpecs :
         SignTransaction(payload, signerSpec)
    \/ \E id \in Calls, i \in Vertices, outcome \in Outcomes : VertexResponds(id, i, outcome)

SpecSodotHash == InitSodotHash /\ [][NextSodotHash]_vars

\* the custody backends asked for public keys of two coin types on one curve
CustodySpecs ==
    {SignerSpec("secp256k1", "sha256", "rsv", coinType) : coinType \in {<<"6", "0">>, <<"0">>}}

InitCustody == InitWith({CustodyEnv}, {NoRemote, SomeRemote})

NextCustody ==
    \/ \E signerType \in {"TURNKEY", "DFNS"} : ConnectWallet(signerType)
    \/ \E signerSpec \in CustodySpecs : GetPubKey(signerSpec)
    \/ \E id \in Calls, outcome \in Outcomes : TurnkeyResponds(id, outcome)
    \/ \E id \in Calls, outcome \in Outcomes : DfnsResponds(id, outcome)

SpecCustody == InitCustody /\ [][NextCustody]_vars

\* signing on the local and the Turnkey backend with supported and unsupported hash functions
SigningSpecs ==
    {SignerSpec(curve, hashFunction, "rsv", <<"6", "0">>) :
       curve \in {"secp256k1", "ed25519"}, hashFunction \in {"sha256", "sha512_256", "pedersen"}}

InitSigning == InitWith({FullEnv}, {SomeRemote})

NextSigning ==
    \/ \E signerType \in {"LOCAL", "TURNKEY"} : ConnectWallet(signerType)
    \/ \E payload \in Payloads, signerSpec \in SigningSpecs :
         SignTransaction(payload, signerSpec)
    \/ \E id \in Calls, outcome \in Outcomes : TurnkeyResponds(id, outcome)
    \/ \E id \in Calls : MnemonicToSeedResolves(id)

SpecSigning == InitSigning /\ [][NextSigning]_vars

\* utils.ts called on its own: extractSignature(signatureFormat, signature)
ExtractSignature ==
    /\ lastCall.tool = "call extractSignature"
    /\ LET signatureFormat == lastCall.arg.signatureFormat
           signature == [r |-> lastCall.arg.r, s |-> lastCall.arg.s, v |-> lastCall.arg.v]
       IN lastCall' =
            IF ExtractSignatureThrows(signatureFormat)
            THEN Err("extractSignature", lastCall.arg,
                     "Unsupported signature format", signatureFormat)
            ELSE Ok("extractSignature", lastCall.arg,
                    extractSignature(signatureFormat, signature))
    /\ UNCHANGED <<env, instance, signers, remote, nextOp, ops, returned>>

BoolText(b) == IF b THEN "true" ELSE "false"

\* utils.ts called on its own: isDerivationPath(path) and getCoinTypeFromDerivationPath(path)
GetCoinTypeFromDerivationPath ==
    /\ lastCall.tool = "call getCoinTypeFromDerivationPath"
    /\ lastCall' = Ok("getCoinTypeFromDerivationPath", lastCall.arg,
                      <<BoolText(isDerivationPath(lastCall.arg)),
                        getCoinTypeFromDerivationPath(lastCall.arg)>>)
    /\ UNCHANGED <<env, instance, signers, remote, nextOp, ops, returned>>

\* r and s texts: with and without a leading 0x, with 0x inside, empty
SignatureTexts ==
    {<<>>, <<"a", "b">>, <<"0", "x", "a", "b">>, <<"a", "0", "x", "b">>,
     <<"0", "x">>, <<"0", "x", "0", "x", "1">>}

SignatureInputs ==
    [signatureFormat : {"rs", "rsv", "der"},
     r : SignatureTexts,
     s : SignatureTexts,
     v : {Undefined, <<"1", "c">>, <<"0", "x", "1", "c">>}]

PathSegments ==
    {<<>>, <<"1">>, <<"4", "4", "'">>, <<"6", "0">>, <<"a", "b", "c">>, <<"1", "a">>,
     <<"-", "1">>, <<"'", "7">>, <<"7", "'", "'">>, <<" ", "8">>, <<"0", "x", "1", "0">>}

PathInputs ==
    {<<"m", "/">> \o a \o <<"/">> \o b : a \in PathSegments, b \in PathSegments}
      \cup {<<"m", "/", "4", "4", "'", "/", "6", "0", "'", "/", "0", "'", "/", "0", "/", "0">>,
            <<"m", "/", "a", "b", "c", "/", "1">>, <<"m", "/", "1">>, <<"m">>, <<>>,
            <<"x", "/", "1", "/", "2">>, <<"4", "4", "/", "6", "0">>,
            <<"m", "/", "1", "/", "2", "/", "x">>}

InitUtils ==
    /\ env = FullEnv
    /\ remote = NoRemote
    /\ instance = NoInstance
    /\ signers = <<>>
    /\ nextOp = 0
    /\ ops = EmptyMap
    /\ returned = EmptyMap
    /\ \/ \E input \in SignatureInputs : lastCall = Ok("call extractSignature", input, <<>>)
       \/ \E path \in PathInputs :
            lastCall = Ok("call getCoinTypeFromDerivationPath", path, <<>>)

NextUtils == ExtractSignature \/ GetCoinTypeFromDerivationPath

SpecUtils == InitUtils /\ [][NextUtils]_vars

\* the MPC backend configured, two ECDSA key identifiers pre-provisioned:
\* SODOT_EXISTING_ECDSA_KEY_IDS="ka,kb"
TwoKeyIdsEnv ==
    Present(SodotRequired)
        @@ ("SODOT_EXISTING_ECDSA_KEY_IDS" :> <<"k", "a", ",", "k", "b">>)

\* the MPC backend signing with pre-provisioned key identifiers
SodotSignSpecs ==
    {SignerSpec("secp256k1", "sha256", signatureFormat, <<"6", "0">>) :
       signatureFormat \in SignatureFormats}

InitSodotSign == InitWith({ProvisionedEnv, TwoKeyIdsEnv}, {NoRemote})

NextSodotSign ==
    \/ ConnectWallet("SODOT")
    \/ \E payload \in Payloads, signerSpec \in SodotSignSpecs :
         SignTransaction(payload, signerSpec)
    \/ \E id \in Calls, i \in Vertices, outcome \in Outcomes : VertexResponds(id, i, outcome)

SpecSodotSign == InitSodotSign /\ [][NextSodotSign]_vars

\* the three backends that call out, no key identifiers pre-provisioned
RemoteEnv == Present(SodotRequired \cup TurnkeyRequired \cup DfnsRequired)

\* calls that share one cache key on every backend
RemoteSpecs == {SignerSpec("secp256k1", "sha256", "rsv", <<"6", "0">>)}

InitRemote == InitWith({RemoteEnv}, {NoRemote, SomeRemote})

NextRemote ==
    \/ \E signerType \in {"SODOT", "TURNKEY", "DFNS"} : ConnectWallet(signerType)
    \/ \E signerSpec \in RemoteSpecs : GetPubKey(signerSpec)
    \/ \E payload \in Payloads, signerSpec \in RemoteSpecs :
         SignTransaction(payload, signerSpec)
    \/ \E id \in Calls, i \in Vertices, outcome \in Outcomes : VertexResponds(id, i, outcome)
    \/ \E id \in Calls, outcome \in Outcomes : TurnkeyResponds(id, outcome)
    \/ \E id \in Calls, outcome \in Outcomes : DfnsResponds(id, outcome)

SpecRemote == InitRemote /\ [][NextRemote]_vars

\* process.env[key] = value, by any code of the process, after start-up
SetEnv(key, value) ==
    /\ env = FullEnv
    /\ env' = [k \in DOMAIN env \cup {key} |-> IF k = key THEN value ELSE env[k]]
    /\ UNCHANGED <<instance, signers, remote, nextOp, ops, lastCall, returned>>

\* delete process.env[key]
DeleteEnv(key) ==
    /\ env = FullEnv
    /\ key \in DOMAIN env
    /\ env' = [k \in DOMAIN env \ {key} |-> env[k]]
    /\ UNCHANGED <<instance, signers, remote, nextOp, ops, lastCall, returned>>

\* the configuration values that the backends use after construction
CallTimeEnv == {"SEED_PHRASE", "TURNKEY_WALLET_ID", "SODOT_EXISTING_ECDSA_KEY_IDS"}

EnvSpecs == {SignerSpec("secp256k1", "sha256", "rsv", <<"6", "0">>)}

InitEnv == InitWith({FullEnv}, {NoRemote})

\* a session whose process environment is changed once while it runs
NextEnv ==
    \/ \E signerType \in {"SODOT", "TURNKEY", "LOCAL"} : ConnectWallet(signerType)
    \/ \E signerSpec \in EnvSpecs : GetPubKey(signerSpec)
    \/ \E id \in Calls, i \in Vertices, outcome \in Outcomes : VertexResponds(id, i, outcome)
    \/ \E id \in Calls, outcome \in Outcomes : TurnkeyResponds(id, outcome)
    \/ \E key \in CallTimeEnv : SetEnv(key, <<"k", "x", ",", "k", "y", ",", "k", "z">>)
    \/ \E key \in CallTimeEnv : DeleteEnv(key)

SpecEnv == InitEnv /\ [][NextEnv]_vars

\* getStarkPrivateKey's reduction on its own: BigInt(hashed) reduced for a curve order
StarkReduction ==
    /\ lastCall.tool = "call getStarkPrivateKey"
    /\ lastCall' = Ok("getStarkPrivateKey", lastCall.arg,
                      <<ReduceToStarkKey(lastCall.arg.keyBigInt, lastCall.arg.order)>>)
    /\ UNCHANGED <<env, instance, signers, remote, nextOp, ops, returned>>

\* digests as non-negative integers (BigInt of a 0x... hex text), orders from 2 up
StarkInputs == [keyBigInt : 0 .. MaxDigest, order : 2 .. MaxOrder]

InitStark ==
    /\ env = FullEnv
    /\ remote = NoRemote
    /\ instance = NoInstance
    /\ signers = <<>>
    /\ nextOp = 0
    /\ ops = EmptyMap
    /\ returned = EmptyMap
    /\ \E input \in StarkInputs : lastCall = Ok("call getStarkPrivateKey", input, <<>>)

NextStark == StarkReduction

SpecStark == InitStark /\ [][NextStark]_vars

\* the MPC backend with peers that answer every request sent to them, and a client
\* that makes one call
FairSpecs == {SignerSpec("secp256k1", "sha256", "rsv", <<"6", "0">>)}

InitFair == InitWith({SodotEnv}, {NoRemote})

NextFair ==
    \/ ConnectWallet("SODOT")
    \/ \E signerSpec \in FairSpecs : nextOp = 0 /\ GetPubKey(signerSpec)
    \/ \E payload \in Payloads, signerSpec \in FairSpecs :
         nextOp = 0 /\ SignTransaction(payload, signerSpec)
    \/ \E id \in Calls, i \in Vertices, outcome \in Outcomes : VertexResponds(id, i, outcome)

\* while a request is out, a peer answers one in the end, one way or another
PeersAnswer ==
    WF_vars(\E id \in Calls, i \in Vertices, outcome \in Outcomes :
              VertexResponds(id, i, outcome))

SpecFair == InitFair /\ [][NextFair]_vars /\ PeersAnswer

----------------------------------------------------------------------------
(* The session singleton: claims C1 - C5 *)

ConflictError(signerType) == <<"Signer was already instanciated as", signerType>>

\* C1: when a backend is already connected, connect(kind) succeeds as a no-op if and
\* only if kind is the connected kind; otherwise it fails with the conflict error that
\* names the connected kind; in both cases the connected backend is left unchanged.
C1_ConnectWhenConnected ==
    [][\A signerType \in SignerTypes :
         (instance # NoInstance /\ lastCall'.tool = "connectWallet" /\ Connect(signerType)) =>
           /\ lastCall'.ok <=> (signerType = instance.signerType)
           /\ ~lastCall'.ok => lastCall'.value = ConflictError(instance.signerType)
           /\ instance' = instance
           /\ signers' = signers]_vars

\* a connect to another kind has just failed with the conflict error
C1_Witness ==
    /\ instance # NoInstance
    /\ lastCall.tool = "connectWallet"
    /\ ~lastCall.ok
    /\ lastCall.arg \in SignerTypes \ {instance.signerType}
    /\ lastCall.value = ConflictError(instance.signerType)

\* C2: at most one backend object is ever constructed, and once a backend is connected
\* the connected kind, the connected object and its class never change, whatever
\* tool calls and responses follow.
C2_SingleBackendForever ==
    [][/\ Len(signers') <= 1
       /\ instance # NoInstance =>
            /\ instance' = instance
            /\ Len(signers') = 1
            /\ signers'[instance.signer].class = signers[instance.signer].class
            /\ signers[instance.signer].class = instance.signerType]_vars

\* connected, every call budgeted has been started, and a later connect was refused
C2_Witness ==
    /\ instance # NoInstance
    /\ nextOp = MaxOps
    /\ lastCall.tool = "connectWallet"
    /\ ~lastCall.ok

BackendTools == {"getPubKey", "signTransaction"}

PcOfClass(pc, class) ==
    CASE class = "SODOT" -> IsSodotPc(pc)
      [] class = "TURNKEY" -> IsTurnkeyPc(pc)
      [] class = "DFNS" -> IsDfnsPc(pc)
      [] class = "LOCAL" -> pc = "mnemonicToSeed"

\* C3: every getPubKey / signTransaction call that reaches a backend runs on the object
\* the first successful connect constructed, which is the connected one, and does that
\* backend's work; while no backend is connected such a call fails with "No wallet is
\* connected" and nothing of a backend has happened (no call started, no object, no key).
C3_CallsRunOnConnectedBackend ==
    /\ \A id \in DOMAIN ops :
         /\ instance # NoInstance
         /\ ops[id].signer = 1
         /\ ops[id].signer = instance.signer
         /\ PcOfClass(ops[id].pc, instance.signerType)
    /\ instance = NoInstance =>
         /\ nextOp = 0 /\ ops = EmptyMap /\ returned = EmptyMap /\ signers = <<>>
         /\ remote \in {NoRemote, SomeRemote}
         /\ lastCall.tool \in BackendTools =>
              ~lastCall.ok /\ lastCall.value = <<"No wallet is connected", "">>
    /\ (lastCall.tool \in BackendTools /\ lastCall.call = NoCall) =>
         ~lastCall.ok /\ lastCall.value = <<"No wallet is connected", "">>
    /\ (lastCall.tool \in BackendTools /\ lastCall.call # NoCall) => instance # NoInstance

\* a call is in flight on the connected backend after an unconnected call was refused
\* and a later connect to another kind was refused
C3_Witness ==
    /\ instance # NoInstance
    /\ ops # EmptyMap
    /\ lastCall.tool = "connectWallet"
    /\ ~lastCall.ok

\* a call made before any connect was refused
C3_WitnessUnconnected ==
    /\ instance = NoInstance
    /\ lastCall.tool \in BackendTools
    /\ lastCall.value = <<"No wallet is connected", "">>

\* some required variable of the kind is not in the environment at all
ConfigMissing(signerType) == \E key \in RequiredEnv(signerType) : key \notin DOMAIN env

\* every required variable of the kind is present with a non-empty value
FullyConfigured(signerType) ==
    \A key \in RequiredEnv(signerType) : key \in DOMAIN env /\ env[key] # <<>>

\* C4: on an unconnected session, connect(kind) with the kind's configuration missing
\* fails with the constructor's configuration error and leaves the session unconnected
\* with no backend object retained; and on an unconnected session (so also after such
\* a failure) connect to a fully configured kind succeeds and connects that kind.
C4_FailedConstructionLeavesSessionFree ==
    [][\A signerType \in SignerTypes :
         (instance = NoInstance /\ lastCall'.tool = "connectWallet" /\ Connect(signerType)) =>
           /\ ConfigMissing(signerType) =>
                /\ lastCall' = Err("connectWallet", signerType,
                                   ConstructorError(signerType), "")
                /\ instance' = NoInstance
                /\ signers' = <<>>
           /\ FullyConfigured(signerType) =>
                /\ lastCall'.ok
                /\ instance'.signerType = signerType
                /\ Len(signers') = 1
                /\ signers'[instance'.signer] = NewSigner(signerType)]_vars

\* a connect has just failed in the constructor and the session is unconnected,
\* while another kind is fully configured
C4_Witness ==
    /\ instance = NoInstance
    /\ signers = <<>>
    /\ lastCall.tool = "connectWallet"
    /\ ~lastCall.ok
    /\ lastCall.arg \in SignerTypes
    /\ ConfigMissing(lastCall.arg)
    /\ lastCall.value = <<ConstructorError(lastCall.arg), "">>
    /\ \E other \in SignerTypes \ {lastCall.arg} : FullyConfigured(other)

\* some required variable of the kind is missing or present with an empty value
ConfigDefective(signerType) ==
    \E key \in RequiredEnv(signerType) : key \notin DOMAIN env \/ env[key] = <<>>

\* C5 (as claimed): a kind with a missing or empty required value has a false
\* configuration predicate, is not among the available backends and cannot be
\* constructed (so is never the connected kind); the available backends are exactly
\* the kinds whose predicate is true.
C5_DefectiveConfigRejected ==
    /\ \A signerType \in SignerTypes :
         ConfigDefective(signerType) =>
           /\ ~IsConfigValid(signerType)
           /\ signerType \notin getAvailableProviders
           /\ ConstructorThrows(signerType)
           /\ instance.signerType # signerType
    /\ getAvailableProviders = {signerType \in SignerTypes : IsConfigValid(signerType)}

----------------------------------------------------------------------------
(* Public keys and the threshold-MPC backend: claims C6 - C10 *)

\* the backend object of the session, once connected
ConnectedSigner == signers[instance.signer]

\* C6 (as claimed): the successful getPublicKey calls made with one (curve, coinType)
\* on the backend object of the session all returned the same public key.
C6_GetPubkeyMemoized ==
    \A key \in DOMAIN returned : Cardinality(returned[key] \ {Undefined}) <= 1

KeygenPcs == {"keygenRoom", "keygenInit", "keygen"}

\* C7 (as claimed): without pre-provisioned key identifiers, a call that starts for a
\* curve whose key identifiers are already cached issues no room-creation,
\* initialization or keygen request for key generation.
C7_KeygenOncePerCurve ==
    [][\A id \in DOMAIN ops' \ DOMAIN ops :
         (/\ instance # NoInstance
          /\ ~Truthy(ExistingKeyIdsVar(ops'[id].spec.curve))
          /\ MapHas(ConnectedSigner.keyCache, getKeyCacheKey(ops'[id].spec)))
         => ops'[id].pc \notin KeygenPcs]_vars

\* C8: when a peer answers a keygen-phase request with a non-success response, or is
\* unreachable, the ceremony and the calling getPubKey / signTransaction fail at once,
\* whatever the other peers answered, and the backend's cache is left as it was: the
\* key identifiers of the failed ceremony are cached for no curve.
C8_KeygenUnanimity ==
    [][\A id \in DOMAIN ops, i \in Vertices, outcome \in Outcomes \ {"ok"} :
         (ops[id].pc = "keygen" /\ VertexResponds(id, i, outcome)) =>
           /\ id \notin DOMAIN ops'
           /\ lastCall'.call.id = id
           /\ lastCall'.call.at = "keygen"
           /\ ~lastCall'.ok
           /\ signers' = signers
           /\ \A key \in DOMAIN ConnectedSigner.keyCache :
                ConnectedSigner.keyCache[key] # ops[id].keyIds]_vars

\* a ceremony has failed on one peer's non-success status after the two others succeeded
C8_Witness ==
    /\ lastCall.tool \in BackendTools
    /\ lastCall.call.at = "keygen"
    /\ ~lastCall.ok
    /\ DOMAIN lastCall.call.outcomes = Vertices
    /\ \E i \in Vertices :
         /\ lastCall.call.outcomes[i] = "status"
         /\ \A j \in Vertices \ {i} : lastCall.call.outcomes[j] = "ok"
    /\ ~MapHas(ConnectedSigner.keyCache, getKeyCacheKey(lastCall.arg))

\* a signTransaction call that ended in its signing phase, every peer having answered
SignPhaseEnded ==
    /\ lastCall.tool = "signTransaction"
    /\ lastCall.call.at = "sign"
    /\ DOMAIN lastCall.call.outcomes = Vertices

\* what signTransaction returns to the caller for peer i's signature
ReturnedSignatureOf(i) ==
    IF lastCall.arg.curve = "ed25519"
    THEN <<"e", "d", ToString(i)>>
    ELSE <<"a", ToString(i), "b", ToString(i)>> \o ToHex(27 + i)

\* C9 (as claimed): a sign whose peer 0 answered with a signature succeeds and returns
\* peer 0's signature although peers 1 and 2 failed, by status or by being unreachable.
C9_SignToleratesPeerFailures ==
    (/\ SignPhaseEnded
     /\ lastCall.call.outcomes[0] = "ok"
     /\ lastCall.call.outcomes[1] # "ok"
     /\ lastCall.call.outcomes[2] # "ok")
    => lastCall.ok /\ lastCall.value = ReturnedSignatureOf(0)

\* C10: a sign that ended in its signing phase succeeded only if peer 0 answered with a
\* signature, and then it returned peer 0's signature and no other peer's; if peer 0
\* answered with a non-success status the sign failed, and when no peer was unreachable
\* it failed with "Failed to sign message with Vertex", also when peers 1 and 2 signed.
C10_SignResultFromPeerZero ==
    (lastCall.tool = "signTransaction" /\ lastCall.call.at = "sign") =>
      /\ lastCall.ok =>
           /\ MapHas(lastCall.call.outcomes, 0)
           /\ lastCall.call.outcomes[0] = "ok"
           /\ lastCall.value = ReturnedSignatureOf(0)
           /\ \A i \in Vertices \ {0} : lastCall.value # ReturnedSignatureOf(i)
      /\ (MapHas(lastCall.call.outcomes, 0) /\ lastCall.call.outcomes[0] = "status") =>
           /\ ~lastCall.ok
           /\ (\A i \in Vertices \ {0} : MapHas(lastCall.call.outcomes, i)
                                            /\ lastCall.call.outcomes[i] # "unreachable")
                => lastCall.value = <<"Failed to sign message with Vertex", "">>

\* peer 0 answered with a non-success status, peers 1 and 2 signed, and the sign failed
C10_Witness ==
    /\ SignPhaseEnded
    /\ lastCall.call.outcomes[0] = "status"
    /\ lastCall.call.outcomes[1] = "ok"
    /\ lastCall.call.outcomes[2] = "ok"
    /\ lastCall.value = <<"Failed to sign message with Vertex", "">>

\* peer 0 signed, another peer answered with a non-success status, and the sign
\* returned peer 0's signature
C10_WitnessSuccess ==
    /\ SignPhaseEnded
    /\ lastCall.ok
    /\ lastCall.call.outcomes[1] = "status"
    /\ lastCall.value = ReturnedSignatureOf(0)

----------------------------------------------------------------------------
(* The threshold-MPC ceremony: claims C11 - C13 *)

RoomOrInitPcs == {"keygenRoom", "keygenInit", "signRoom"}

\* C11 (as claimed): when a peer answers a room-creation or initialization request
\* with a non-success status, the call fails at once: it sends no further request
\* to any peer, and the backend's cache is left as it was.
C11_RoomOrInitStatusIsFatal ==
    [][\A id \in DOMAIN ops, i \in Vertices :
         (ops[id].pc \in RoomOrInitPcs /\ VertexResponds(id, i, "status")) =>
           /\ id \notin DOMAIN ops'
           /\ lastCall'.call.id = id
           /\ ~lastCall'.ok
           /\ signers' = signers]_vars

\* sha512_256 or pedersen asked for on an ECDSA-class curve
UnsupportedSodotHash(spec) ==
    spec.curve # "ed25519" /\ spec.hashFunction \in {"sha512_256", "pedersen"}

\* C12 (as claimed): a sign with an unsupported (hashFunction, curve) combination never
\* waits for a peer's response: it fails before any request is sent, with the
\* unsupported-hash error, with or without pre-provisioned or cached key identifiers.
C12_UnsupportedHashFailsFast ==
    /\ \A id \in DOMAIN ops :
         ~(ops[id].tool = "signTransaction" /\ UnsupportedSodotHash(ops[id].spec))
    /\ (/\ lastCall.tool = "signTransaction"
        /\ lastCall.call # NoCall
        /\ UnsupportedSodotHash(lastCall.arg))
       => /\ ~lastCall.ok
          /\ lastCall.call.at = "start"
          /\ lastCall.value = <<"Unsupported hash algorithm", lastCall.arg.hashFunction>>

\* key identifiers are pre-provisioned for the curve family of the curve
ProvisionedFor(curve) ==
    IF curve = "secp256k1"
    THEN "SODOT_EXISTING_ECDSA_KEY_IDS" \in DOMAIN env /\ env["SODOT_EXISTING_ECDSA_KEY_IDS"] # <<>>
    ELSE "SODOT_EXISTING_ED25519_KEY_IDS" \in DOMAIN env
           /\ env["SODOT_EXISTING_ED25519_KEY_IDS"] # <<>>

\* the identifiers supplied as "ka, kb,kc" (ECDSA) and "ea,eb,ec" (ED25519), in order
SuppliedKeyIds(curve) ==
    IF curve = "secp256k1"
    THEN <<<<"k", "a">>, <<"k", "b">>, <<"k", "c">>>>
    ELSE <<<<"e", "a">>, <<"e", "b">>, <<"e", "c">>>>

\* C13: a getPubKey or signTransaction for a curve whose key identifiers are
\* pre-provisioned is never in a keygen-ceremony phase, works with exactly the supplied
\* identifiers in order, sends peer i the i-th of them when signing and peer 0 the
\* first of them when deriving the public key, and did not end in a keygen phase.
C13_ProvisionedIdsBypassKeygen ==
    /\ \A id \in DOMAIN ops :
         ProvisionedFor(ops[id].spec.curve) =>
           /\ ops[id].pc \notin KeygenPcs
           /\ ops[id].keyIds = SuppliedKeyIds(ops[id].spec.curve)
           /\ ops[id].pc = "sign" =>
                /\ DOMAIN ops[id].requests = Vertices
                /\ \A i \in Vertices :
                     ops[id].requests[i].key_id = SuppliedKeyIds(ops[id].spec.curve)[i + 1]
           /\ ops[id].pc = "derivePubkey" =>
                ops[id].requests[0].key_id = SuppliedKeyIds(ops[id].spec.curve)[1]
    /\ (/\ lastCall.tool \in BackendTools
        /\ lastCall.call # NoCall
        /\ ProvisionedFor(lastCall.arg.curve))
       => /\ lastCall.call.at \notin KeygenPcs
          /\ lastCall.call.keyIds = SuppliedKeyIds(lastCall.arg.curve)

\* with ECDSA identifiers pre-provisioned, a sign has its three requests out and a
\* getPubKey for the same curve has returned
C13_Witness ==
    /\ ProvisionedFor("secp256k1")
    /\ \E id \in DOMAIN ops : ops[id].pc = "sign" /\ ops[id].spec.curve = "secp256k1"
    /\ lastCall.tool = "getPubKey"
    /\ lastCall.ok
    /\ lastCall.arg.curve = "secp256k1"

\* the handles of the peers other than i, in peer order
HandlesOfOthers(o, i) ==
    IF i = 0 THEN <<KeygenId(o, 1), KeygenId(o, 2)>>
    ELSE IF i = 1 THEN <<KeygenId(o, 0), KeygenId(o, 2)>>
    ELSE <<KeygenId(o, 0), KeygenId(o, 1)>>

\* C20 (as claimed): in the keygen phase every peer i of the three has one keygen
\* request, which carries the room identifier of the ceremony, the key identifier
\* peer i allocated, n = 3, t = 2, and the keygen handles of the two other peers,
\* its own left out.
C20_KeygenRequestPerPeer ==
    \A id \in DOMAIN ops :
       ops[id].pc = "keygen" =>
         LET o == ops[id] IN
         /\ DOMAIN o.requests = 0 .. 2
         /\ \A i \in 0 .. 2 :
              /\ o.requests[i].endpoint = "keygen"
              /\ o.requests[i].room_uuid = RoomUuid(o, "keygen")
              /\ o.requests[i].key_id = KeyId(o, i)
              /\ o.requests[i].num_parties = 3
              /\ o.requests[i].threshold = 2
              /\ o.requests[i].others_keygen_ids = HandlesOfOthers(o, i)

----------------------------------------------------------------------------
(* Accounts, hash functions and failures: claims C14 - C16, C19 *)

\* C14 (as claimed): on a custodial backend, public keys returned for one curve and
\* two different coin types come from two accounts, each of its own coin type: no
\* public key is returned for both.
C14_AccountPerCurveAndCoinType ==
    \A key1 \in DOMAIN returned, key2 \in DOMAIN returned :
      (key1[1] = key2[1] /\ key1[2] # key2[2]) =>
        (returned[key1] \ {Undefined}) \cap (returned[key2] \ {Undefined}) = {}

\* a hash function secp256k1 signing must not accept
UnsupportedForSecp256k1(spec) ==
    spec.curve = "secp256k1" /\ spec.hashFunction \notin {"sha256", "keccak256"}

\* C15 (as claimed): a sign on secp256k1 with a hash function other than sha256 or
\* keccak256 (pedersen among them) is rejected and produces no signature.
C15_UnsupportedHashRejected ==
    (/\ lastCall.tool = "signTransaction"
     /\ lastCall.call # NoCall
     /\ UnsupportedForSecp256k1(lastCall.arg))
    => ~lastCall.ok

\* how signTransaction(payload, spec) starts on the connected backend: where it
\* stands at its first await (or settles) and with which value
SignStart(payload, spec) ==
    LET o == NewOp(0, "signTransaction", WalletOf(instance), spec, payload)
        step == SignerBegin(o, ConnectedSigner)
    IN <<step.op.pc, step.op.value>>

\* C16 (as claimed): for ed25519 the hash function is ignored: two sign requests that
\* differ only in hashFunction start (and settle, when they settle at once) alike, and
\* no ed25519 sign fails with a hash-function error.
C16_Ed25519IgnoresHashFunction ==
    /\ instance # NoInstance =>
         \A payload \in Payloads, h1 \in HashFunctions, h2 \in HashFunctions :
           SignStart(payload, SignerSpec("ed25519", h1, "rsv", <<"6", "0">>))
             = SignStart(payload, SignerSpec("ed25519", h2, "rsv", <<"6", "0">>))
    /\ (/\ lastCall.tool = "signTransaction"
        /\ lastCall.call # NoCall
        /\ lastCall.arg.curve = "ed25519")
       => lastCall.value # <<"SHA512_256 not implemented", "">>

\* a getPubKey or signTransaction call ends in this step
CallEnds ==
    \/ \E id \in DOMAIN ops : id \notin DOMAIN ops'
    \/ nextOp' = nextOp + 1 /\ nextOp' \notin DOMAIN ops'

\* every entry of a cache is still there with its value
EntriesKept(old, new) == \A key \in DOMAIN old : key \in DOMAIN new /\ new[key] = old[key]

\* the cache gained entries under the given keys at most
EntriesAddedOnly(old, new, keys) == DOMAIN new \ DOMAIN old \subseteq keys

----------------------------------------------------------------------------
(* utils.ts: claims C17 and C18 *)

\* a text without its leading "0x", when it has one
WithoutPrefix0x(text) ==
    IF Len(text) >= 2 /\ text[1] = "0" /\ text[2] = "x"
    THEN SubSeq(text, 3, Len(text))
    ELSE text

\* C17 (as claimed): extractSignature returns r and s, each without its leading "0x",
\* concatenated, followed for rsv by v without its leading "0x" (v given); any other
\* format fails with the unsupported-format error.
C17_ExtractSignature ==
    lastCall.tool = "extractSignature" =>
      LET input == lastCall.arg IN
      CASE input.signatureFormat = "rs" ->
             /\ lastCall.ok
             /\ lastCall.value = WithoutPrefix0x(input.r) \o WithoutPrefix0x(input.s)
        [] input.signatureFormat = "rsv" ->
             /\ lastCall.ok
             /\ input.v # Undefined =>
                  lastCall.value = WithoutPrefix0x(input.r) \o WithoutPrefix0x(input.s)
                                     \o WithoutPrefix0x(input.v)
        [] OTHER ->
             /\ ~lastCall.ok
             /\ lastCall.value = <<"Unsupported signature format", input.signatureFormat>>

Digits == {"0", "1", "2", "3", "4", "5", "6", "7", "8", "9"}

\* a segment without its hardened marker, the apostrophe that ends it
WithoutHardenedMarker(segment) ==
    IF segment # <<>> /\ segment[Len(segment)] = "'"
    THEN SubSeq(segment, 1, Len(segment) - 1)
    ELSE segment

\* the text is a non-negative integer in decimal notation
IsNonNegativeInteger(text) ==
    text # <<>> /\ \A k \in 1 .. Len(text) : text[k] \in Digits

RECURSIVE DecimalValue(_, _)
DecimalValue(text, acc) ==
    IF text = <<>> THEN acc
    ELSE DecimalValue(Tail(text),
                      10 * acc + (CHOOSE d \in 0 .. 9 : ToString(d) = Head(text)))

RECURSIVE SegmentsOf(_, _)
\* the segments of a path between its slashes
SegmentsOf(text, current) ==
    IF text = <<>> THEN <<current>>
    ELSE IF Head(text) = "/" THEN <<current>> \o SegmentsOf(Tail(text), <<>>)
    ELSE SegmentsOf(Tail(text), Append(current, Head(text)))

\* the path starts with m/, has two segments or more after m, each a non-negative
\* integer once its hardened marker is stripped
ValidPath(path) ==
    /\ Len(path) >= 2 /\ path[1] = "m" /\ path[2] = "/"
    /\ LET segments == Tail(SegmentsOf(path, <<>>)) IN
       /\ Len(segments) >= 2
       /\ \A k \in 1 .. Len(segments) :
            IsNonNegativeInteger(WithoutHardenedMarker(segments[k]))

\* C18 (as claimed): isDerivationPath is true exactly for the valid paths, and
\* getCoinTypeFromDerivationPath returns the integer of the second segment of a
\* valid path and null for every other string.
C18_DerivationPathParsing ==
    lastCall.tool = "getCoinTypeFromDerivationPath" =>
      LET path == lastCall.arg IN
      IF ValidPath(path)
      THEN lastCall.value =
             <<"true", DecimalValue(WithoutHardenedMarker(SegmentsOf(path, <<>>)[3]), 0)>>
      ELSE lastCall.value = <<"false", Null>>

----------------------------------------------------------------------------
(* Ceremony structure: claims C21 - C23 *)

\* C21: under every order of the peers' responses, a call on the MPC backend leaves
\* a phase (room creation, initialization, keygen, sign) for the next one, or
\* returns a result, only in the step that collects the last outstanding response
\* of that phase; in the room phase the only request out is the room creation.
C21_PhaseBarriers ==
    [][\A id \in DOMAIN ops, i \in Vertices, outcome \in Outcomes :
         LET barriers ==
               /\ ops[id].pc \in {"keygenRoom", "signRoom"} =>
                    /\ DOMAIN ops[id].requests = {0}
                    /\ ops[id].requests[0].endpoint = "create-room"
               /\ (id \in DOMAIN ops' /\ ops'[id].pc # ops[id].pc) =>
                    DOMAIN ops[id].outcomes \cup {i} = DOMAIN ops[id].requests
               /\ (id \notin DOMAIN ops' /\ lastCall'.ok) =>
                    DOMAIN lastCall'.call.outcomes = DOMAIN ops[id].requests
         IN barriers \/ ~VertexResponds(id, i, outcome)]_vars

\* a sign that went through the whole ceremony (room, initialization, keygen, room,
\* sign) returned a signature after the three peers answered, peer 2 with a
\* non-success status
C21_Witness ==
    /\ lastCall.tool = "signTransaction"
    /\ lastCall.ok
    /\ lastCall.call.at = "sign"
    /\ lastCall.call.keyIds = <<<<"key", lastCall.call.id, 0>>, <<"key", lastCall.call.id, 1>>,
                                <<"key", lastCall.call.id, 2>>>>
    /\ DOMAIN lastCall.call.outcomes = Vertices
    /\ lastCall.call.outcomes[2] = "status"

\* the requests of a call that carry a room identifier
RoomRequests(o) ==
    {i \in DOMAIN o.requests : o.requests[i].endpoint \in {"keygen", "sign"}}

\* C22 (as claimed): every sign request of a signing operation carries the
\* identifier of the room that operation created on peer 0 and the derivation path
\* [44, coinType, 0, 0, 0], and no two ceremonies in progress send requests with the
\* same room identifier.
C22_FreshRoomPerSign ==
    /\ \A id \in DOMAIN ops :
         ops[id].pc = "sign" =>
           \A i \in DOMAIN ops[id].requests :
              /\ ops[id].requests[i].room_uuid = RoomUuid(ops[id], "sign")
              /\ ops[id].requests[i].derivation_path =
                   <<44, ToNumber(ops[id].spec.coinType), 0, 0, 0>>
    /\ \A id1 \in DOMAIN ops, id2 \in DOMAIN ops :
         id1 # id2 =>
           \A i \in RoomRequests(ops[id1]), j \in RoomRequests(ops[id2]) :
              ops[id1].requests[i].room_uuid # ops[id2].requests[j].room_uuid

\* C23 (as claimed): in the sign phase each of the three peers has one sign request
\* out, peer i's carrying the key identifier of party index i, whether the key
\* identifiers were generated or pre-provisioned.
C23_SignRequestPerPeer ==
    \A id \in DOMAIN ops :
       ops[id].pc = "sign" =>
         /\ DOMAIN ops[id].requests = 0 .. 2
         /\ Len(ops[id].keyIds) = 3
         /\ \A i \in 0 .. 2 :
              /\ ops[id].requests[i].endpoint = "sign"
              /\ ops[id].requests[i].key_id = ops[id].keyIds[i + 1]

----------------------------------------------------------------------------
(* Retries, cache races and configuration: claims C24 - C26 *)

\* the order in which a call goes through its remote and peer calls
PhaseRank(pc) ==
    CASE pc \in {"keygenRoom", "getWalletAccounts", "listWallets", "mnemonicToSeed"} -> 1
      [] pc \in {"keygenInit", "createWalletAccounts", "createWallet"} -> 2
      [] pc \in {"keygen", "signRawPayload", "getWallet", "generateSignature"} -> 3
      [] pc \in {"derivePubkey", "signRoom"} -> 4
      [] pc = "sign" -> 5
      [] OTHER -> 0

\* C24: a call in flight only moves forward: a step either takes it to a later
\* phase, whose requests go out for the first time, or records one more response
\* of the current phase and leaves the requests and the responses already recorded
\* as they were.  No request is sent a second time, answered or failed.
C24_NoRetry ==
    [][\A id \in DOMAIN ops :
         (id \in DOMAIN ops' /\ ops'[id] # ops[id]) =>
           \/ PhaseRank(ops'[id].pc) > PhaseRank(ops[id].pc)
           \/ /\ ops'[id].pc = ops[id].pc
              /\ ops'[id].requests = ops[id].requests
              /\ DOMAIN ops[id].outcomes \subseteq DOMAIN ops'[id].outcomes
              /\ DOMAIN ops[id].outcomes # DOMAIN ops'[id].outcomes
              /\ \A i \in DOMAIN ops[id].outcomes :
                   ops'[id].outcomes[i] = ops[id].outcomes[i]]_vars

\* a sign request failed on peer 1 and the call, which went through keygen, is
\* still waiting for peers 0 and 2
C24_Witness ==
    \E id \in DOMAIN ops :
       /\ ops[id].pc = "sign"
       /\ ops[id].keyIds[1] = KeyId(ops[id], 0)
       /\ DOMAIN ops[id].outcomes = {1}
       /\ ops[id].outcomes[1] = "status"

\* the calls in flight that have resolved the key or account they work with
HasResolved(o) ==
    o.pc \in {"derivePubkey", "signRoom", "sign", "getWallet", "generateSignature",
              "signRawPayload"}

\* the key identifiers, wallet or account a call in flight has resolved
ResolvedIdentifier(o) ==
    CASE o.pc \in {"derivePubkey", "signRoom", "sign"} -> o.keyIds
      [] o.pc \in {"getWallet", "generateSignature"} -> o.requests[0].walletId
      [] o.pc = "signRawPayload" -> o.requests[0].signWith

\* C25 (as claimed): two calls in flight together on one backend object for the same
\* curve and coin type, whether they hit or missed the cache, have resolved the same
\* key or account identifier.
C25_BenignCacheRace ==
    \A id1 \in DOMAIN ops, id2 \in DOMAIN ops :
       (/\ id1 # id2
        /\ ops[id1].signer = ops[id2].signer
        /\ ops[id1].spec.curve = ops[id2].spec.curve
        /\ ops[id1].spec.coinType = ops[id2].spec.coinType
        /\ HasResolved(ops[id1])
        /\ HasResolved(ops[id2]))
       => ResolvedIdentifier(ops[id1]) = ResolvedIdentifier(ops[id2])

\* C26 (as claimed): when a configuration value is changed or removed while a
\* backend is connected, a getPubKey or signTransaction call made next starts as it
\* would have started before the change: with the same result if it returns at
\* once, with the same first remote or peer request otherwise.
C26_ConfigurationReadAtConstruction ==
    [][(env' # env /\ instance # NoInstance) =>
         \A tool \in {"getPubKey", "signTransaction"}, payload \in Payloads,
            signerSpec \in EnvSpecs :
            LET o == NewOp(nextOp + 1, tool, instance.signer, signerSpec, payload) IN
            (SignerBegin(o, ConnectedSigner).op)' = SignerBegin(o, ConnectedSigner).op]_vars

----------------------------------------------------------------------------
(* Local key derivation and signature text: claims C27, C28 *)

\* C27: the reduced Stark private key is greater than 0 and less than the order,
\* that is, it lies in 1 .. order - 1, for every digest.
C27_StarkKeyInRange ==
    lastCall.tool = "getStarkPrivateKey" =>
      LET validKey == lastCall.value[1]
          order == lastCall.arg.order
      IN /\ 0 < validKey
         /\ validKey < order
         /\ validKey \in 1 .. (order - 1)

\* a digest one below a multiple of order - 1 is reduced to the largest key, order - 1
C27_Witness ==
    /\ lastCall.tool = "getStarkPrivateKey"
    /\ lastCall.arg.order = MaxOrder
    /\ lastCall.arg.keyBigInt = 2 * (MaxOrder - 1) - 1
    /\ lastCall.value = <<MaxOrder - 1>>

HexCharacters ==
    {"0", "1", "2", "3", "4", "5", "6", "7", "8", "9", "a", "b", "c", "d", "e", "f"}

\* C28 (as claimed): the text a successful sign with signatureFormat rsv returns
\* consists of hex characters only: no placeholder such as "undefined" stands in
\* for a v the signer did not supply.
C28_RsvIsHexOnly ==
    (/\ lastCall.tool = "signTransaction"
     /\ lastCall.ok
     /\ lastCall.arg.signatureFormat = "rsv")
    => \A k \in 1 .. Len(lastCall.value) : lastCall.value[k] \in HexCharacters

----------------------------------------------------------------------------
(* Unsupported curves and termination: claims C29, C30 *)

\* C29 (as claimed): a getPubKey or signTransaction call for the stark curve on the
\* MPC or the Turnkey backend ends in the step that starts it, with the
\* unsupported-curve error: no request to a peer or to the service goes out, and
\* the caches of the backend are left as they were.
C29_UnsupportedCurveFailsFast ==
    [][LET id == nextOp'
           signerSpec == IF id \in DOMAIN ops' THEN ops'[id].spec ELSE lastCall'.arg
       IN (/\ nextOp' = nextOp + 1
           /\ ConnectedSigner.class \in {"SODOT", "TURNKEY"}
           /\ signerSpec.curve = "stark")
          => /\ id \notin DOMAIN ops'
             /\ ~lastCall'.ok
             /\ lastCall'.value[1] = "Unsupported curve"
             /\ signers' = signers]_vars

\* C30: when the peers answer every request sent to them, every getPubKey and
\* signTransaction call on the MPC backend that is in flight ends in time, with a
\* result or with an error.
C30_CallsComplete ==
    \A id \in Calls :
       (id \in DOMAIN ops) ~> (id \notin DOMAIN ops /\ lastCall.call.id = id)

\* a sign whose peers 0 and 1 have produced their signatures is still in flight,
\* waiting for the response of peer 2
C30_Witness ==
    \E id \in DOMAIN ops :
       /\ ops[id].pc = "sign"
       /\ DOMAIN ops[id].outcomes = {0, 1}
       /\ ops[id].outcomes[0] = "ok"
       /\ ops[id].outcomes[1] = "ok"

====
